---- MODULE Spec2Model ----
(***************************************************************************)
(* Model of ModelExperimentalSceneGraph (the runtime scene graph of a 3D   *)
(* model): construction from the model components, the model-level         *)
(* pipeline selection, the draw-command rebuild, the per-frame update, the *)
(* placement-matrix update and the scene-wide setters; and of              *)
(* PositionPropertyArray, a property whose value is an array of position   *)
(* properties.                                                             *)
(*                                                                         *)
(* Matrices are affine maps of the line, [a |-> linear part, b |->         *)
(* translation]; points and sphere centers are integers.  A value that is  *)
(* undefined in the program is a record whose field "defined" is FALSE.    *)
(***************************************************************************)
EXTENDS Integers, Sequences, FiniteSets, TLC

\* ------------------------------------------------------------ bounds
\* number of entries of components.nodes
MaxNodes == 3
\* number of completed or attempted draw-command rebuilds that are told apart
MaxBuilds == 2

\* Number.MAX_VALUE, the sentinel of the running min/max corners
MAX_VALUE == 1000

NodeIdx == 0 .. (MaxNodes - 1)
NoIndex == 0 - 1

\* ------------------------------------------------------------ Matrix4, Cartesian3
IDENTITY == [a |-> 1, b |-> 0]

\* Matrix4.multiplyTransformation(left, right): the map left o right
multiplyTransformation(left, right) ==
  [a |-> left.a * right.a, b |-> left.a * right.b + left.b]

\* Matrix4.multiplyByUniformScale(m, s): m o scale(s); the translation is kept
multiplyByUniformScale(m, s) == [a |-> m.a * s, b |-> m.b]

\* Matrix4.getTranslation
getTranslation(m) == m.b

\* Matrix4.multiplyByPoint
multiplyByPoint(m, x) == m.a * x + m.b

Min2(x, y) == IF x <= y THEN x ELSE y
Max2(x, y) == IF x >= y THEN x ELSE y
Abs(x) == IF x < 0 THEN 0 - x ELSE x

\* ------------------------------------------------------------ sequences
RECURSIVE SortedSeq(_)
\* the elements of a finite set of integers in ascending order
SortedSeq(S) ==
  IF S = {} THEN << >>
  ELSE LET m == CHOOSE x \in S : \A y \in S : x <= y
       IN << m >> \o SortedSeq(S \ {m})

Reverse(s) == [k \in 1 .. Len(s) |-> s[Len(s) + 1 - k]]

Range(s) == {s[k] : k \in 1 .. Len(s)}

\* ------------------------------------------------------------ state
VARIABLES
  phase,                  \* "new": not constructed, "constructed", "failed": the constructor threw
  components,             \* options.modelComponents (read-only input)
  model,                  \* options.model, the owning ModelExperimental
  runtimeNodes,           \* _runtimeNodes
  rootNodes,              \* _rootNodes
  skinnedNodes,           \* _skinnedNodes
  runtimeSkins,           \* _runtimeSkins
  modelPipelineStages,    \* modelPipelineStages
  boundingSphere,         \* _boundingSphere (model space)
  boundingSphere2D,       \* _boundingSphere2D
  computedModelMatrix,    \* _computedModelMatrix
  computedModelMatrix2D,  \* _computedModelMatrix2D
  buildCount,             \* how many times buildDrawCommands was entered
  rebuilds,               \* history: the flags read and the stage list left by the
                          \* last two calls of configurePipeline, latest last
  last,                   \* the last call: its name, arguments, outcome and event log
  propertyArray,          \* a PositionPropertyArray: _value, _length, _referenceFrame
                          \* and the subscriptions of its _eventHelper
  propertyCall            \* the last call on the PositionPropertyArray and what its
                          \* caller and the listeners of definitionChanged saw

vars == << phase, components, model, runtimeNodes, rootNodes, skinnedNodes,
           runtimeSkins, modelPipelineStages, boundingSphere, boundingSphere2D,
           computedModelMatrix, computedModelMatrix2D, buildCount,
           rebuilds, last, propertyArray, propertyCall >>

\* the variables of the scene graph and of its event log
sceneGraphVars ==
  << phase, components, model, runtimeNodes, rootNodes, skinnedNodes,
     runtimeSkins, modelPipelineStages, boundingSphere, boundingSphere2D,
     computedModelMatrix, computedModelMatrix2D, buildCount, rebuilds, last >>

sgVars == << runtimeNodes, rootNodes, skinnedNodes, runtimeSkins,
             modelPipelineStages, boundingSphere, boundingSphere2D,
             computedModelMatrix, computedModelMatrix2D >>

\* ------------------------------------------------------------ events
\* one entry of the event log of a call
Ev(e, n, p) == [e |-> e, n |-> n, p |-> p]

\* the record of a call
Call(op, arg, ok, events) == [op |-> op, arg |-> arg, ok |-> ok, events |-> events]

NoArg == [mode |-> "SCENE3D", flag |-> FALSE, matrix |-> IDENTITY, value |-> "none"]

\* ------------------------------------------------------------ undefined values
\* an array value that is undefined
NoValue == [defined |-> FALSE, items |-> << >>]

\* no PositionPropertyArray has been constructed
NoPropertyArray ==
  [constructed |-> FALSE, value |-> NoValue, length |-> 0,
   referenceFrame |-> "FIXED", subscriptions |-> << >>]

NoPropertyCall ==
  [op |-> "none", value |-> NoValue, item |-> 0, time |-> FALSE,
   referenceFrame |-> "FIXED", ok |-> TRUE, raised |-> 0, result |-> NoValue,
   removed |-> << >>]

NoSphere == [defined |-> FALSE, center |-> 0, radius |-> 0]

NoMatrix2D == [path |-> "identity", m |-> IDENTITY, center |-> 0]

NoCommand ==
  [defined |-> FALSE, build |-> 0, backFaceCulling |-> FALSE,
   shadows |-> "DISABLED", debugShowBoundingVolume |-> FALSE]

\* a position of new Array(n) that was never assigned
EmptySlot ==
  [defined |-> FALSE, node |-> NoIndex, transform |-> IDENTITY,
   transformToRoot |-> IDENTITY, children |-> << >>, transformDirty |-> FALSE,
   runtimePrimitives |-> << >>, runtimeSkin |-> NoIndex, jointMatrices |-> << >>]

\* ------------------------------------------------------------ collaborators
\* ModelExperimentalUtility.getNodeTransform: the node's local matrix
getNodeTransform(node) == node.matrix

\* ModelExperimentalUtility.getAxisCorrectionMatrix: a rotation (no translation)
\* chosen by the declared up and forward axes
getAxisCorrectionMatrix(upAxis, forwardAxis) ==
  multiplyTransformation(
    IF upAxis = "Y" THEN [a |-> 0 - 1, b |-> 0] ELSE IDENTITY,
    IF forwardAxis = "Z" THEN [a |-> 0 - 1, b |-> 0] ELSE IDENTITY)

\* sceneGraph._axisCorrectionMatrix, fixed by the constructor
axisCorrectionMatrix ==
  getAxisCorrectionMatrix(components.upAxis, components.forwardAxis)

\* new ModelExperimentalPrimitive({primitive, node, model}): no draw command yet
NewRuntimePrimitive(primitive) ==
  [primitive |-> primitive, drawCommand |-> NoCommand, boundingSphere |-> NoSphere]

\* new ModelExperimentalNode({node, transform, transformToRoot, children, sceneGraph})
NewRuntimeNode(node, transform, transformToRoot, children) ==
  [defined |-> TRUE, node |-> node.index, transform |-> transform,
   transformToRoot |-> transformToRoot, children |-> children,
   transformDirty |-> FALSE, runtimePrimitives |-> << >>,
   runtimeSkin |-> NoIndex, jointMatrices |-> << >>]

\* new ModelExperimentalSkin({skin, sceneGraph}): the joints, by node index
NewRuntimeSkin(skin) == [skin |-> skin.index, joints |-> skin.joints]

\* runtimeNode.computedTransform
computedTransform(rn) == multiplyTransformation(rn.transformToRoot, rn.transform)

\* ------------------------------------------------------------ composition variant
\* variant: the placement is composed onto the previously composed matrix
computeModelMatrixAccumulating(modelMatrix) ==
  multiplyByUniformScale(
    multiplyTransformation(
      multiplyTransformation(
        multiplyTransformation(computedModelMatrix, modelMatrix),
        components.transform),
      axisCorrectionMatrix),
    model.computedScale)

\* ------------------------------------------------------------ computeModelMatrix
\* placement, then the static transform, then the axis correction, then the scale
computeModelMatrix(modelMatrix) ==
  multiplyByUniformScale(
    multiplyTransformation(
      multiplyTransformation(modelMatrix, components.transform),
      axisCorrectionMatrix),
    model.computedScale)

\* ------------------------------------------------------------ traverseSceneGraph
RECURSIVE traverseSceneGraph(_, _, _)
RECURSIVE traverseChildren(_, _, _, _, _)

\* the loop over node.children from position k on; st is the state so far,
\* acc the child indices collected so far
traverseChildren(st, node, k, childTransformToRoot, acc) ==
  IF k > Len(node.children) THEN [st |-> st, childrenIndices |-> acc]
  ELSE LET childNode == components.nodes[node.children[k]]
           r == traverseSceneGraph(st, childNode, childTransformToRoot)
       IN traverseChildren(r.st, node, k + 1, childTransformToRoot,
                           Append(acc, r.index))

\* the store of the runtime node at sceneGraph._runtimeNodes[index]
StoreRuntimeNode(rn, index, runtimeNode) == [rn EXCEPT ![index] = runtimeNode]

\* variant: the runtime node is created and stored before its children are
\* traversed, and its child-index list is filled afterwards
traverseSceneGraphPreOrder(st, node, transformToRoot) ==
  LET transform == getNodeTransform(node)
      index == node.index
      created == [st EXCEPT !.ev = Append(st.ev, Ev("node", index, 0))]
      r == traverseChildren(created, node, 1,
             multiplyTransformation(transformToRoot, transform), << >>)
      runtimeNode ==
        [NewRuntimeNode(node, transform, transformToRoot, r.childrenIndices)
           EXCEPT !.runtimePrimitives =
             [j \in 1 .. Len(node.primitives) |->
                NewRuntimePrimitive(node.primitives[j])]]
  IN [st |-> [rn |-> StoreRuntimeNode(r.st.rn, index, runtimeNode),
              sk |-> IF node.skin # NoIndex THEN Append(r.st.sk, index)
                     ELSE r.st.sk,
              ev |-> r.st.ev],
      index |-> index]

traverseSceneGraph(st, node, transformToRoot) ==
  LET transform == getNodeTransform(node)
      r == traverseChildren(st, node, 1,
             multiplyTransformation(transformToRoot, transform), << >>)
      runtimeNode ==
        [NewRuntimeNode(node, transform, transformToRoot, r.childrenIndices)
           EXCEPT !.runtimePrimitives =
             [j \in 1 .. Len(node.primitives) |->
                NewRuntimePrimitive(node.primitives[j])]]
      index == node.index
  IN [st |-> [rn |-> StoreRuntimeNode(r.st.rn, index, runtimeNode),
              sk |-> IF node.skin # NoIndex THEN Append(r.st.sk, index)
                     ELSE r.st.sk,
              ev |-> Append(r.st.ev, Ev("node", index, 0))],
      index |-> index]

RECURSIVE traverseRoots(_, _, _)
\* the loop of initialize over scene.nodes from position k on
traverseRoots(st, k, roots) ==
  IF k > Len(components.scene) THEN [st |-> st, roots |-> roots]
  ELSE LET r == traverseSceneGraph(st, components.nodes[components.scene[k]],
                                   IDENTITY)
       IN traverseRoots(r.st, k + 1, Append(roots, r.index))

\* ------------------------------------------------------------ skins
\* runtimeNode.updateJointMatrices reads every joint's runtime node
JointsResolve(rn, skin) == \A k \in 1 .. Len(skin.joints) : rn[skin.joints[k]].defined

RECURSIVE JointMatricesUpTo(_, _, _)
JointMatricesUpTo(rn, skin, k) ==
  IF k = 0 THEN << >>
  ELSE Append(JointMatricesUpTo(rn, skin, k - 1),
              computedTransform(rn[skin.joints[k]]))

\* one joint matrix per joint, from the joint's runtime node
JointMatrices(rn, skin) == JointMatricesUpTo(rn, skin, Len(skin.joints))

RECURSIVE wireSkinnedNodes(_, _, _, _)
\* the loop of initialize over _skinnedNodes from position k on; stops at the
\* first node whose joint matrices cannot be computed
wireSkinnedNodes(rn, sk, skins, k) ==
  IF k > Len(sk) THEN [rn |-> rn, ok |-> TRUE, ev |-> << >>]
  ELSE LET i == sk[k]
           skinIndex == components.nodes[i].skin
           skin == skins[skinIndex + 1]
           wired == [rn EXCEPT ![i].runtimeSkin = skinIndex]
       IN IF ~JointsResolve(rn, skin)
          THEN [rn |-> wired, ok |-> FALSE, ev |-> << >>]
          ELSE LET rest == wireSkinnedNodes(
                             [wired EXCEPT ![i].jointMatrices =
                                             JointMatrices(rn, skin)],
                             sk, skins, k + 1)
               IN [rn |-> rest.rn, ok |-> rest.ok,
                   ev |-> << Ev("joints", i, skinIndex) >> \o rest.ev]

RECURSIVE SkinEvents(_)
\* the log of the loop of initialize over components.skins
SkinEvents(k) ==
  IF k = 0 THEN << >> ELSE Append(SkinEvents(k - 1), Ev("skin", k - 1, 0))

\* ------------------------------------------------------------ constructor
\* variant: only the model components are required
optionsMissingComponentsOnly == ~components.defined

\* options.model or options.modelComponents is not given
optionsMissing == ~model.defined \/ ~components.defined

\* the error of a constructor called without a required option: with the debug
\* checks built in, the DeveloperError of Check.typeOf.object; with the checks
\* stripped, the TypeError of the first read through the missing option
\* (components.upAxis in the constructor, _model.modelMatrix in initialize)
MissingOptionError(debug) ==
  IF debug
  THEN Ev("DeveloperError", NoIndex, IF ~model.defined THEN 0 ELSE 1)
  ELSE Ev("TypeError", NoIndex, IF ~components.defined THEN 1 ELSE 0)

\* new ModelExperimentalSceneGraph(options) and initialize(sceneGraph)
Construct ==
  /\ phase = "new"
  /\ IF optionsMissing
     THEN /\ \E debug \in BOOLEAN :
               last' = Call("construct", NoArg, FALSE, << MissingOptionError(debug) >>)
          /\ phase' = "failed"
          /\ UNCHANGED << runtimeNodes, rootNodes, skinnedNodes, runtimeSkins,
                          computedModelMatrix >>
     ELSE
     LET n == components.nodesLength
         cm == computeModelMatrix(model.modelMatrix)
         st0 == [rn |-> [i \in 0 .. (n - 1) |-> EmptySlot], sk |-> << >>,
                 ev |-> << >>]
         t == traverseRoots(st0, 1, << >>)
         skins == [k \in 1 .. Len(components.skins) |->
                     NewRuntimeSkin(components.skins[k])]
         skinEv == SkinEvents(Len(components.skins))
         w == wireSkinnedNodes(t.st.rn, t.st.sk, skins, 1)
     IN /\ computedModelMatrix' = cm
        /\ runtimeNodes' = w.rn
        /\ rootNodes' = t.roots
        /\ skinnedNodes' = t.st.sk
        /\ runtimeSkins' = skins
        /\ phase' = IF w.ok THEN "constructed" ELSE "failed"
        /\ last' = Call("construct", NoArg, w.ok, t.st.ev \o skinEv \o w.ev)
  /\ UNCHANGED << propertyArray, propertyCall >>
  /\ UNCHANGED << components, model, modelPipelineStages, boundingSphere,
                  boundingSphere2D, computedModelMatrix2D, buildCount,
                  rebuilds >>

\* ------------------------------------------------------------ BoundingSphere
\* BoundingSphere.fromCornerPoints: centered at the midpoint of the corners
fromCornerPoints(corner, oppositeCorner) ==
  LET center == (corner + oppositeCorner) \div 2
  IN [defined |-> TRUE, center |-> center, radius |-> Abs(oppositeCorner - center)]

\* BoundingSphere.transformWithoutScale: the center is mapped, the radius kept
transformWithoutScale(sphere, m) ==
  [defined |-> TRUE, center |-> multiplyByPoint(m, sphere.center),
   radius |-> sphere.radius]

\* BoundingSphere.transform: the center is mapped, the radius scaled
transformSphere(sphere, m) ==
  [defined |-> TRUE, center |-> multiplyByPoint(m, sphere.center),
   radius |-> Abs(m.a) * sphere.radius]

\* ------------------------------------------------------------ configurePipeline
ColorStage == "ModelColorPipelineStage"
LightingStage == "ImageBasedLightingPipelineStage"
ClippingStage == "ModelClippingPlanesPipelineStage"
SplitterStage == "ModelSplitterPipelineStage"

\* variant: the splitter stage is pushed whenever a split direction is set
configurePipelineAnySplit(stages, m) ==
  (IF m.color THEN << ColorStage >> ELSE << >>)
  \o (IF m.imageBasedLighting THEN << LightingStage >> ELSE << >>)
  \o (IF m.clippingEnabled THEN << ClippingStage >> ELSE << >>)
  \o (IF m.splitDirection # "undefined" THEN << SplitterStage >> ELSE << >>)

\* variant: the list is not emptied before the pushes
configurePipelineKeeping(stages, m) ==
  stages
  \o (IF m.color THEN << ColorStage >> ELSE << >>)
  \o (IF m.imageBasedLighting THEN << LightingStage >> ELSE << >>)
  \o (IF m.clippingEnabled THEN << ClippingStage >> ELSE << >>)
  \o (IF m.splitDirection # "undefined" /\ m.splitDirection # "NONE"
      THEN << SplitterStage >> ELSE << >>)

\* the stage list configurePipeline leaves: the list is emptied, then one push
\* per flag that is set
configurePipeline(stages, m) ==
  (IF m.color THEN << ColorStage >> ELSE << >>)
  \o (IF m.imageBasedLighting THEN << LightingStage >> ELSE << >>)
  \o (IF m.clippingEnabled THEN << ClippingStage >> ELSE << >>)
  \o (IF m.splitDirection # "undefined" /\ m.splitDirection # "NONE"
      THEN << SplitterStage >> ELSE << >>)

\* the flags of the model that configurePipeline reads
Flags(m) ==
  [color |-> m.color, imageBasedLighting |-> m.imageBasedLighting,
   clippingEnabled |-> m.clippingEnabled, splitDirection |-> m.splitDirection]

\* the history after one more configurePipeline
Rebuilt(stages, m) ==
  LET entry == [flags |-> Flags(m), stages |-> stages]
  IN IF rebuilds = << >> THEN << entry >> ELSE << rebuilds[Len(rebuilds)], entry >>

\* ------------------------------------------------------------ buildDrawCommands
NoFail == [kind |-> "none", n |-> 0, p |-> 0]

\* the stages that can fail in one rebuild: a model-level stage of the configured
\* list, or the stages of a primitive of a runtime node
FailPoints(stages) ==
  {NoFail}
  \cup {[kind |-> "model", n |-> k, p |-> 0] : k \in 1 .. Len(stages)}
  \cup UNION {{[kind |-> "primitive", n |-> i, p |-> j] :
                 j \in 1 .. Len(runtimeNodes[i].runtimePrimitives)} :
               i \in DOMAIN runtimeNodes}

\* buildDrawCommand(primitiveRenderResources, frameState): a fresh command
buildDrawCommand(stamp) ==
  [defined |-> TRUE, build |-> stamp, backFaceCulling |-> TRUE,
   shadows |-> "ENABLED", debugShowBoundingVolume |-> FALSE]

\* variant: a primitive that has a draw command keeps it
AssignDrawCommandOnce(rp, drawCommand) ==
  IF rp.drawCommand.defined THEN rp ELSE [rp EXCEPT !.drawCommand = drawCommand]

\* runtimePrimitive.drawCommand = drawCommand
AssignDrawCommand(rp, drawCommand) == [rp EXCEPT !.drawCommand = drawCommand]

\* variant: a failing stage restores the runtime nodes the rebuild started with
AbortRebuildRollingBack(st, ev) ==
  [rn |-> runtimeNodes, min |-> st.min, max |-> st.max, ev |-> ev, ok |-> FALSE,
   count |-> st.count]

\* a stage throws: the loops end where they are, what was assigned stays
AbortRebuild(st, ev) ==
  [rn |-> st.rn, min |-> st.min, max |-> st.max, ev |-> ev, ok |-> FALSE,
   count |-> st.count]

RECURSIVE buildPrimitives(_, _, _, _, _)
\* the loop over runtimeNode.runtimePrimitives from position j on
buildPrimitives(st, i, j, fail, stamp) ==
  IF ~st.ok \/ j > Len(st.rn[i].runtimePrimitives) THEN st
  ELSE LET rp == st.rn[i].runtimePrimitives[j]
           ev1 == Append(st.ev, Ev("primitiveStages", i, j))
       IN IF fail.kind = "primitive" /\ fail.n = i /\ fail.p = j
          THEN AbortRebuild(st, ev1)
          ELSE LET nodeTransform == computedTransform(st.rn[i])
                   primitivePositionMin ==
                     multiplyByPoint(nodeTransform, rp.primitive.positionMin)
                   primitivePositionMax ==
                     multiplyByPoint(nodeTransform, rp.primitive.positionMax)
                   sphere == fromCornerPoints(rp.primitive.positionMin,
                                              rp.primitive.positionMax)
                   built == AssignDrawCommand(
                              [rp EXCEPT !.boundingSphere = sphere],
                              buildDrawCommand(stamp))
               IN buildPrimitives(
                    [rn |-> [st.rn EXCEPT ![i].runtimePrimitives[j] = built],
                     min |-> Min2(st.min, primitivePositionMin),
                     max |-> Max2(st.max, primitivePositionMax),
                     ev |-> Append(ev1, Ev("drawCommand", i, j)),
                     ok |-> TRUE, count |-> st.count + 1],
                    i, j + 1, fail, stamp)

RECURSIVE buildNodes(_, _, _, _)
\* the loop over this._runtimeNodes from index i on; an empty position ends it
\* with a TypeError
buildNodes(st, i, fail, stamp) ==
  IF ~st.ok \/ i \notin DOMAIN st.rn THEN st
  ELSE IF ~st.rn[i].defined
       THEN [rn |-> st.rn, min |-> st.min, max |-> st.max,
             ev |-> Append(st.ev, Ev("TypeError", i, 0)), ok |-> FALSE,
             count |-> st.count]
       ELSE buildNodes(
              buildPrimitives(
                [rn |-> st.rn, min |-> st.min, max |-> st.max,
                 ev |-> Append(st.ev, Ev("nodeStages", i, 0)), ok |-> TRUE,
                 count |-> st.count],
                i, 1, fail, stamp),
              i + 1, fail, stamp)

RECURSIVE ModelStageEvents(_)
ModelStageEvents(k) ==
  IF k = 0 THEN << >> ELSE Append(ModelStageEvents(k - 1), Ev("modelStage", k, 0))

\* variant: the statistics are cleared after the model-level stages have run
RebuildPrologueClearingLast(ranStages) ==
  ModelStageEvents(ranStages) \o << Ev("clear", 0, 0) >>

\* the start of buildDrawCommands: model.statistics.clear(), then the
\* model-level stages, of which the first ranStages run
RebuildPrologue(ranStages) ==
  << Ev("clear", 0, 0) >> \o ModelStageEvents(ranStages)

\* ModelExperimentalSceneGraph.prototype.configurePipeline, called on its own
ConfigurePipeline ==
  /\ phase = "constructed"
  /\ modelPipelineStages' = configurePipeline(modelPipelineStages, model)
  /\ rebuilds' = Rebuilt(modelPipelineStages', model)
  /\ last' = Call("configurePipeline", NoArg, TRUE, << >>)
  /\ UNCHANGED << propertyArray, propertyCall >>
  /\ UNCHANGED << phase, components, model, runtimeNodes, rootNodes, skinnedNodes,
                  runtimeSkins, boundingSphere, boundingSphere2D,
                  computedModelMatrix, computedModelMatrix2D, buildCount >>

\* ModelExperimentalSceneGraph.prototype.buildDrawCommands
BuildDrawCommandsIn(failures) ==
  /\ phase = "constructed"
  /\ buildCount < MaxBuilds
  /\ LET stages == configurePipeline(modelPipelineStages, model)
     IN \E fail \in IF failures THEN FailPoints(stages) ELSE {NoFail} :
          LET stamp == buildCount + 1
              ranStages == IF fail.kind = "model" THEN fail.n ELSE Len(stages)
              ev0 == RebuildPrologue(ranStages)
              st == IF fail.kind = "model"
                    THEN [rn |-> runtimeNodes, min |-> MAX_VALUE,
                          max |-> 0 - MAX_VALUE, ev |-> ev0, ok |-> FALSE,
                          count |-> 0]
                    ELSE buildNodes(
                           [rn |-> runtimeNodes, min |-> MAX_VALUE,
                            max |-> 0 - MAX_VALUE, ev |-> ev0, ok |-> TRUE,
                            count |-> 0],
                           0, fail, stamp)
              sphere == transformWithoutScale(fromCornerPoints(st.min, st.max),
                                              axisCorrectionMatrix)
              modelSphere == transformSphere(sphere, model.modelMatrix)
          IN /\ buildCount' = stamp
             /\ modelPipelineStages' = stages
             /\ runtimeNodes' = st.rn
             /\ boundingSphere' = IF st.ok THEN sphere ELSE boundingSphere
             /\ model' = IF st.ok
                         THEN [model EXCEPT
                                 !.statistics = st.count,
                                 !.boundingSphere =
                                   [modelSphere EXCEPT
                                      !.radius = modelSphere.radius * model.clampedScale],
                                 !.initialRadius = modelSphere.radius]
                         ELSE [model EXCEPT !.statistics = st.count]
             /\ rebuilds' = Rebuilt(stages, model)
             /\ last' = Call("buildDrawCommands", NoArg, st.ok,
                             IF st.ok
                             THEN Append(st.ev, Ev("boundingSphere", 0, 0))
                             ELSE st.ev)
  /\ UNCHANGED << propertyArray, propertyCall >>
  /\ UNCHANGED << phase, components, rootNodes, skinnedNodes, runtimeSkins,
                  boundingSphere2D, computedModelMatrix, computedModelMatrix2D >>

\* ------------------------------------------------------------ forEachRuntimePrimitive
\* the callbacks of the three setters: which field of the draw command is
\* assigned, and the value
Callback(field, arg) == [field |-> field, flag |-> arg.flag, value |-> arg.value]

\* variant: the bounding-volume setter assigns the culling field
ApplyCallbackWrongField(drawCommand, cb) ==
  CASE cb.field = "backFaceCulling" -> [drawCommand EXCEPT !.backFaceCulling = cb.flag]
    [] cb.field = "shadows" -> [drawCommand EXCEPT !.shadows = cb.value]
    [] cb.field = "debugShowBoundingVolume" ->
         [drawCommand EXCEPT !.backFaceCulling = cb.flag]
    [] OTHER -> drawCommand

\* drawCommand.<field> = <value>
ApplyCallback(drawCommand, cb) ==
  CASE cb.field = "backFaceCulling" -> [drawCommand EXCEPT !.backFaceCulling = cb.flag]
    [] cb.field = "shadows" -> [drawCommand EXCEPT !.shadows = cb.value]
    [] cb.field = "debugShowBoundingVolume" ->
         [drawCommand EXCEPT !.debugShowBoundingVolume = cb.flag]
    [] OTHER -> drawCommand

RECURSIVE forEachRuntimePrimitiveSkipping(_, _, _, _)
\* variant: a primitive without a draw command is passed over
forEachRuntimePrimitiveSkipping(st, i, j, cb) ==
  IF ~st.ok \/ i \notin DOMAIN st.rn THEN st
  ELSE IF ~st.rn[i].defined
       THEN [rn |-> st.rn, ok |-> FALSE, ev |-> Append(st.ev, Ev("TypeError", i, 0))]
       ELSE IF j > Len(st.rn[i].runtimePrimitives)
            THEN forEachRuntimePrimitiveSkipping(st, i + 1, 1, cb)
            ELSE LET rp == st.rn[i].runtimePrimitives[j]
                 IN IF ~rp.drawCommand.defined
                    THEN forEachRuntimePrimitiveSkipping(st, i, j + 1, cb)
                    ELSE forEachRuntimePrimitiveSkipping(
                           [rn |-> [st.rn EXCEPT
                                      ![i].runtimePrimitives[j].drawCommand =
                                        ApplyCallback(rp.drawCommand, cb)],
                            ok |-> TRUE,
                            ev |-> Append(st.ev, Ev("callback", i, j))],
                           i, j + 1, cb)

RECURSIVE forEachRuntimePrimitive(_, _, _, _)
\* the two nested loops from node i, primitive j on; an empty position of the
\* array, or a primitive without a draw command, ends them with a TypeError
forEachRuntimePrimitive(st, i, j, cb) ==
  IF ~st.ok \/ i \notin DOMAIN st.rn THEN st
  ELSE IF ~st.rn[i].defined
       THEN [rn |-> st.rn, ok |-> FALSE, ev |-> Append(st.ev, Ev("TypeError", i, 0))]
       ELSE IF j > Len(st.rn[i].runtimePrimitives)
            THEN forEachRuntimePrimitive(st, i + 1, 1, cb)
            ELSE LET rp == st.rn[i].runtimePrimitives[j]
                 IN IF ~rp.drawCommand.defined
                    THEN [rn |-> st.rn, ok |-> FALSE,
                          ev |-> Append(st.ev, Ev("TypeError", i, j))]
                    ELSE forEachRuntimePrimitive(
                           [rn |-> [st.rn EXCEPT
                                      ![i].runtimePrimitives[j].drawCommand =
                                        ApplyCallback(rp.drawCommand, cb)],
                            ok |-> TRUE,
                            ev |-> Append(st.ev, Ev("callback", i, j))],
                           i, j + 1, cb)

ShadowModes == {"DISABLED", "ENABLED"}

\* updateBackFaceCulling, updateShadows, updateShowBoundingVolume
Setter(field, arg) ==
  /\ phase = "constructed"
  /\ LET r == forEachRuntimePrimitive(
                [rn |-> runtimeNodes, ok |-> TRUE, ev |-> << >>], 0, 1,
                Callback(field, arg))
     IN /\ runtimeNodes' = r.rn
        /\ last' = Call(field, arg, r.ok, r.ev)
  /\ UNCHANGED << propertyArray, propertyCall >>
  /\ UNCHANGED << phase, components, model, rootNodes, skinnedNodes, runtimeSkins,
                  modelPipelineStages, boundingSphere, boundingSphere2D,
                  computedModelMatrix, computedModelMatrix2D, buildCount,
                  rebuilds >>

UpdateBackFaceCulling ==
  \E v \in BOOLEAN : Setter("backFaceCulling", [NoArg EXCEPT !.flag = v])

UpdateShadows ==
  \E v \in ShadowModes : Setter("shadows", [NoArg EXCEPT !.value = v])

UpdateShowBoundingVolume ==
  \E v \in BOOLEAN : Setter("debugShowBoundingVolume", [NoArg EXCEPT !.flag = v])

RECURSIVE collectDrawCommands(_, _, _, _)
\* the draw commands getDrawCommands pushes, in node order then primitive order
collectDrawCommands(rn, i, j, acc) ==
  IF i \notin DOMAIN rn THEN [ok |-> TRUE, commands |-> acc]
  ELSE IF ~rn[i].defined THEN [ok |-> FALSE, commands |-> acc]
       ELSE IF j > Len(rn[i].runtimePrimitives)
            THEN collectDrawCommands(rn, i + 1, 1, acc)
            ELSE IF ~rn[i].runtimePrimitives[j].drawCommand.defined
                 THEN [ok |-> FALSE, commands |-> acc]
                 ELSE collectDrawCommands(
                        rn, i, j + 1,
                        Append(acc, rn[i].runtimePrimitives[j].drawCommand))

\* ModelExperimentalSceneGraph.prototype.getDrawCommands: the returned array
getDrawCommands(rn) == collectDrawCommands(rn, 0, 1, << >>)

GetDrawCommands ==
  /\ phase = "constructed"
  /\ last' = Call("getDrawCommands", NoArg, getDrawCommands(runtimeNodes).ok, << >>)
  /\ UNCHANGED << propertyArray, propertyCall >>
  /\ UNCHANGED << phase, components, model, sgVars, buildCount, rebuilds >>

\* ------------------------------------------------------------ update
SceneModes == {"SCENE3D", "SCENE2D", "COLUMBUS_VIEW"}

RECURSIVE markDirty(_, _, _)
\* the children of a node are marked dirty, from position k of the list on
markDirty(rn, children, k) ==
  IF k > Len(children) THEN rn
  ELSE markDirty([rn EXCEPT ![children[k]].transformDirty = TRUE], children, k + 1)

\* variant: a dirty node forgets the children it has marked
nodeUpdateStageConsumingChildren(st, i) ==
  IF st.rn[i].transformDirty
  THEN [rn |-> markDirty([st.rn EXCEPT ![i].transformDirty = FALSE,
                                      ![i].children = << >>],
                         st.rn[i].children, 1),
        ok |-> TRUE,
        ev |-> st.ev \o << Ev("nodeUpdate", i, 0), Ev("recompute", i, 0) >>]
  ELSE [rn |-> st.rn, ok |-> TRUE, ev |-> Append(st.ev, Ev("nodeUpdate", i, 0))]

\* the node's update stage: a dirty node recomputes its transform, marks its
\* children dirty and is clean afterwards
nodeUpdateStage(st, i) ==
  IF st.rn[i].transformDirty
  THEN [rn |-> markDirty([st.rn EXCEPT ![i].transformDirty = FALSE],
                         st.rn[i].children, 1),
        ok |-> TRUE,
        ev |-> st.ev \o << Ev("nodeUpdate", i, 0), Ev("recompute", i, 0) >>]
  ELSE [rn |-> st.rn, ok |-> TRUE, ev |-> Append(st.ev, Ev("nodeUpdate", i, 0))]

RECURSIVE updateJointMatrices(_, _, _)
\* the loop of updateJointMatrices over _skinnedNodes from position k on; i is
\* the node whose iteration of update calls it (NoIndex outside update)
updateJointMatrices(st, k, i) ==
  IF ~st.ok \/ k > Len(skinnedNodes) THEN st
  ELSE LET nodeIndex == skinnedNodes[k]
           skin == runtimeSkins[st.rn[nodeIndex].runtimeSkin + 1]
       IN IF st.rn[nodeIndex].runtimeSkin = NoIndex \/ ~JointsResolve(st.rn, skin)
          THEN [rn |-> st.rn, ok |-> FALSE,
                ev |-> Append(st.ev, Ev("TypeError", nodeIndex, 0))]
          ELSE updateJointMatrices(
                 [rn |-> [st.rn EXCEPT ![nodeIndex].jointMatrices =
                                         JointMatrices(st.rn, skin)],
                  ok |-> TRUE,
                  ev |-> Append(st.ev, Ev("jointRefresh", nodeIndex, i))],
                 k + 1, i)

RECURSIVE primitiveUpdateEvents(_, _)
primitiveUpdateEvents(i, count) ==
  IF count = 0 THEN << >>
  ELSE Append(primitiveUpdateEvents(i, count - 1), Ev("primitiveUpdate", i, count))

\* variant: animations are disabled in every frame that is not 3D
refreshesJointsIn3DOnly(mode, updateForAnimations) ==
  updateForAnimations /\ mode = "SCENE3D"

\* whether update refreshes the joint matrices
refreshesJoints(mode, updateForAnimations) ==
  LET disableAnimations == mode # "SCENE3D" /\ model.projectTo2D
  IN updateForAnimations /\ ~disableAnimations

RECURSIVE updateNodesRefreshingFirst(_, _, _, _)
\* variant: the iteration of a node refreshes the joint matrices before it runs
\* the node's update stages
updateNodesRefreshingFirst(st, i, mode, updateForAnimations) ==
  IF ~st.ok \/ i \notin DOMAIN st.rn THEN st
  ELSE IF ~st.rn[i].defined
       THEN [rn |-> st.rn, ok |-> FALSE, ev |-> Append(st.ev, Ev("TypeError", i, 0))]
       ELSE LET s1 == IF refreshesJoints(mode, updateForAnimations)
                      THEN updateJointMatrices(st, 1, i)
                      ELSE st
                s2 == IF s1.ok THEN nodeUpdateStage(s1, i) ELSE s1
            IN IF ~s2.ok THEN s2
               ELSE updateNodesRefreshingFirst(
                      [rn |-> s2.rn, ok |-> TRUE,
                       ev |-> s2.ev \o primitiveUpdateEvents(
                                         i, Len(s2.rn[i].runtimePrimitives))],
                      i + 1, mode, updateForAnimations)

RECURSIVE updateNodes(_, _, _, _)
\* the loop of update over this._runtimeNodes from index i on
updateNodes(st, i, mode, updateForAnimations) ==
  IF ~st.ok \/ i \notin DOMAIN st.rn THEN st
  ELSE IF ~st.rn[i].defined
       THEN [rn |-> st.rn, ok |-> FALSE, ev |-> Append(st.ev, Ev("TypeError", i, 0))]
       ELSE LET s1 == nodeUpdateStage(st, i)
                s2 == IF refreshesJoints(mode, updateForAnimations)
                      THEN updateJointMatrices(s1, 1, i)
                      ELSE s1
            IN IF ~s2.ok THEN s2
               ELSE updateNodes(
                      [rn |-> s2.rn, ok |-> TRUE,
                       ev |-> s2.ev \o primitiveUpdateEvents(
                                         i, Len(s2.rn[i].runtimePrimitives))],
                      i + 1, mode, updateForAnimations)

\* ModelExperimentalSceneGraph.prototype.update
UpdateIn(modes, animationFlags) ==
  /\ phase = "constructed"
  /\ \E mode \in modes, updateForAnimations \in animationFlags :
       LET r == updateNodes([rn |-> runtimeNodes, ok |-> TRUE, ev |-> << >>], 0,
                            mode, updateForAnimations)
       IN /\ runtimeNodes' = r.rn
          /\ last' = Call("update",
                          [NoArg EXCEPT !.mode = mode, !.flag = updateForAnimations],
                          r.ok, r.ev)
  /\ UNCHANGED << propertyArray, propertyCall >>
  /\ UNCHANGED << phase, components, model, rootNodes, skinnedNodes, runtimeSkins,
                  modelPipelineStages, boundingSphere, boundingSphere2D,
                  computedModelMatrix, computedModelMatrix2D, buildCount,
                  rebuilds >>

\* ModelExperimentalSceneGraph.prototype.updateJointMatrices
UpdateJointMatrices ==
  /\ phase = "constructed"
  /\ LET r == updateJointMatrices([rn |-> runtimeNodes, ok |-> TRUE, ev |-> << >>],
                                  1, NoIndex)
     IN /\ runtimeNodes' = r.rn
        /\ last' = Call("updateJointMatrices", NoArg, r.ok, r.ev)
  /\ UNCHANGED << propertyArray, propertyCall >>
  /\ UNCHANGED << phase, components, model, rootNodes, skinnedNodes, runtimeSkins,
                  modelPipelineStages, boundingSphere, boundingSphere2D,
                  computedModelMatrix, computedModelMatrix2D, buildCount,
                  rebuilds >>

\* ------------------------------------------------------------ updateModelMatrix
\* Transforms.basisTo2D(projection, matrix)
basisTo2D(m) == [path |-> "basisTo2D", m |-> m, center |-> 0]

\* Matrix4.multiply(Transforms.wgs84To2DModelMatrix(projection, center), matrix)
originCentered2D(center, m) ==
  [path |-> "wgs84To2DModelMatrix", m |-> m, center |-> center]

\* variant: the test of the translation is inverted
takesGeneralPathNegated(cm) == getTranslation(cm) = 0

\* which of the two conversions computeModelMatrix2D takes
takesGeneralPath(cm) == getTranslation(cm) # 0

\* computeModelMatrix2D: the 2D matrix and the 2D sphere, or a TypeError when the
\* scene graph has no bounding sphere yet
computeModelMatrix2D(cm) ==
  IF takesGeneralPath(cm)
  THEN [m2D |-> basisTo2D(cm),
        sphere |-> IF boundingSphere.defined
                   THEN transformSphere(boundingSphere, cm) ELSE boundingSphere2D,
        ok |-> boundingSphere.defined]
  ELSE IF ~boundingSphere.defined
       THEN [m2D |-> computedModelMatrix2D, sphere |-> boundingSphere2D, ok |-> FALSE]
       ELSE [m2D |-> originCentered2D(boundingSphere.center, cm),
             sphere |-> transformSphere(
                          boundingSphere,
                          multiplyTransformation(
                            [a |-> 1, b |-> boundingSphere.center], cm)),
             ok |-> TRUE]

RECURSIVE markRootsAndChildren(_, _)
\* variant: the loop also marks the children of each root
markRootsAndChildren(rn, k) ==
  IF k > Len(rootNodes) THEN rn
  ELSE markRootsAndChildren(
         markDirty([rn EXCEPT ![rootNodes[k]].transformDirty = TRUE],
                   rn[rootNodes[k]].children, 1),
         k + 1)

RECURSIVE markRoots(_, _)
\* the loop of updateModelMatrix over _rootNodes from position k on
markRoots(rn, k) ==
  IF k > Len(rootNodes) THEN rn
  ELSE markRoots([rn EXCEPT ![rootNodes[k]].transformDirty = TRUE], k + 1)

Placements == {IDENTITY, [a |-> 1, b |-> 4], [a |-> 1, b |-> 0 - 2]}

\* whether updateModelMatrix enters computeModelMatrix2D
computes2D(mode) == mode # "SCENE3D"

\* ModelExperimentalSceneGraph.prototype.updateModelMatrix; the caller passes the
\* model's placement matrix
UpdateModelMatrixIn(placements, modes) ==
  /\ phase = "constructed"
  /\ \E modelMatrix \in placements, mode \in modes :
       LET cm == computeModelMatrix(modelMatrix)
           r == computeModelMatrix2D(cm)
           ok == ~computes2D(mode) \/ r.ok
       IN /\ model' = [model EXCEPT !.modelMatrix = modelMatrix]
          /\ computedModelMatrix' = cm
          /\ computedModelMatrix2D' =
               IF computes2D(mode) THEN r.m2D ELSE computedModelMatrix2D
          /\ boundingSphere2D' =
               IF computes2D(mode) THEN r.sphere ELSE boundingSphere2D
          /\ runtimeNodes' = IF ok THEN markRoots(runtimeNodes, 1) ELSE runtimeNodes
          /\ last' = Call("updateModelMatrix",
                          [NoArg EXCEPT !.mode = mode, !.matrix = modelMatrix],
                          ok, << >>)
  /\ UNCHANGED << propertyArray, propertyCall >>
  /\ UNCHANGED << phase, components, rootNodes, skinnedNodes, runtimeSkins,
                  modelPipelineStages, boundingSphere, buildCount, rebuilds >>

\* ------------------------------------------------------------ the owning model
SplitDirections == {"undefined", "NONE", "LEFT"}

\* the application sets the model's color, lighting, clipping or split direction
ChangeModel ==
  /\ phase = "constructed"
  /\ \E c \in BOOLEAN, l \in BOOLEAN, k \in BOOLEAN, d \in SplitDirections :
       /\ model' = [model EXCEPT !.color = c, !.imageBasedLighting = l,
                                 !.clippingEnabled = k, !.splitDirection = d]
       /\ model' # model
  /\ last' = Call("changeModel", NoArg, TRUE, << >>)
  /\ UNCHANGED << propertyArray, propertyCall >>
  /\ UNCHANGED << phase, components, sgVars, buildCount, rebuilds >>

\* ------------------------------------------------------------ the full calls
BuildDrawCommands == BuildDrawCommandsIn(TRUE)

Update == UpdateIn(SceneModes, BOOLEAN)

UpdateModelMatrix == UpdateModelMatrixIn(Placements, SceneModes)

\* ------------------------------------------------------------ inputs
RECURSIVE Up(_, _, _)
\* the k-th ancestor of node i under the parent map p (NoIndex above a root)
Up(p, i, k) ==
  IF k = 0 \/ i = NoIndex THEN i ELSE Up(p, p[i], k - 1)

\* the parent maps of the forests on the nodes 0 .. n-1
ParentMaps(n) ==
  {p \in [0 .. (n - 1) -> NoIndex .. (n - 1)] :
     \A i \in 0 .. (n - 1) : Up(p, i, n) = NoIndex}

Ordered(S, desc) == IF desc THEN Reverse(SortedSeq(S)) ELSE SortedSeq(S)

ParentlessNodes(p, n) == {i \in 0 .. (n - 1) : p[i] = NoIndex}

Box(lo, hi) == [positionMin |-> lo, positionMax |-> hi]

\* the skin lists: none, or one skin over one or two joints
SkinLists(n) ==
  {<< >>} \cup
  {<< [index |-> 0, joints |-> SortedSeq(J)] >> :
     J \in {K \in SUBSET (0 .. (n - 1)) : Cardinality(K) \in {1, 2}}}

\* ModelComponents: the node list, the scene's root list, the skins, the static
\* transform and the declared axes
Components(n, p, desc, scene, prims, skinOf, mats, skins, transform, upAxis) ==
  [nodesLength |-> n,
   nodes |-> [i \in 0 .. (n - 1) |->
                [index |-> i,
                 children |-> Ordered({j \in 0 .. (n - 1) : p[j] = i}, desc),
                 primitives |-> prims[i],
                 skin |-> skinOf[i],
                 matrix |-> mats[i]]],
   scene |-> scene,
   skins |-> skins,
   transform |-> transform,
   upAxis |-> upAxis,
   forwardAxis |-> "X",
   defined |-> TRUE]

\* the owning model before the first frame
Model0 ==
  [modelMatrix |-> IDENTITY, computedScale |-> 1, clampedScale |-> 1,
   color |-> FALSE, imageBasedLighting |-> FALSE, clippingEnabled |-> FALSE,
   splitDirection |-> "undefined", projectTo2D |-> FALSE,
   statistics |-> 0, boundingSphere |-> NoSphere, initialRadius |-> 0,
   defined |-> TRUE]

\* the scene graph before its constructor runs, for given components and model
SceneGraphUnconstructed(c, m) ==
  /\ phase = "new"
  /\ components = c
  /\ model = m
  /\ runtimeNodes = << >>
  /\ rootNodes = << >>
  /\ skinnedNodes = << >>
  /\ runtimeSkins = << >>
  /\ modelPipelineStages = << >>
  /\ boundingSphere = NoSphere
  /\ boundingSphere2D = NoSphere
  /\ computedModelMatrix = IDENTITY
  /\ computedModelMatrix2D = NoMatrix2D
  /\ buildCount = 0
  /\ rebuilds = << >>
  /\ last = Call("none", NoArg, TRUE, << >>)

\* the state before the constructor runs, for given components and model; there
\* is no PositionPropertyArray
Unconstructed(c, m) ==
  /\ SceneGraphUnconstructed(c, m)
  /\ propertyArray = NoPropertyArray
  /\ propertyCall = NoPropertyCall

\* the local matrix of source node i: a scale and a translation, different per node
NodeMatrix(i) == [a |-> i + 2, b |-> 1]

\* every forest of at most MaxNodes nodes, every subset of its parentless nodes as
\* the scene's roots, children and roots in ascending or descending index order,
\* at most one skin over any joints, any node skinned
InitConstruct ==
  \E n \in 0 .. MaxNodes :
    \E p \in ParentMaps(n), desc \in BOOLEAN, skins \in SkinLists(n) :
      \E S \in SUBSET ParentlessNodes(p, n),
         skinOf \in [0 .. (n - 1) -> {NoIndex} \cup (0 .. (Len(skins) - 1))] :
        Unconstructed(
          Components(n, p, desc, Ordered(S, desc),
                     [i \in 0 .. (n - 1) |-> IF i = 0 THEN << Box(0, 2) >> ELSE << >>],
                     skinOf,
                     [i \in 0 .. (n - 1) |-> NodeMatrix(i)],
                     skins, IDENTITY, "Y"),
          Model0)

NextConstruct == Construct

SpecConstruct == InitConstruct /\ [][NextConstruct]_vars

\* ------------------------------------------------------------ dirty propagation
NoPrimitives(n) == [i \in 0 .. (n - 1) |-> << >>]

Unskinned(n) == [i \in 0 .. (n - 1) |-> NoIndex]

NodeMatricesOf(n) == [i \in 0 .. (n - 1) |-> NodeMatrix(i)]

\* every forest of at most MaxNodes nodes without primitives and skins, every
\* subset of its parentless nodes as the scene's roots
InitDirty ==
  \E n \in 0 .. MaxNodes :
    \E p \in ParentMaps(n) :
      \E S \in SUBSET ParentlessNodes(p, n) :
        Unconstructed(
          Components(n, p, FALSE, Ordered(S, FALSE), NoPrimitives(n), Unskinned(n),
                     NodeMatricesOf(n), << >>, IDENTITY, "Y"),
          Model0)

NextDirty ==
  \/ Construct
  \/ BuildDrawCommandsIn(FALSE)
  \/ UpdateModelMatrixIn({IDENTITY, [a |-> 1, b |-> 4]}, {"SCENE3D", "SCENE2D"})
  \/ UpdateIn({"SCENE3D"}, {FALSE})

SpecDirty == InitDirty /\ [][NextDirty]_vars

\* ------------------------------------------------------------ the source tree
RECURSIVE Below(_, _)
\* the nodes reached from the set S through at most k child links
Below(S, k) ==
  IF k = 0 THEN S
  ELSE LET B == Below(S, k - 1)
       IN B \cup UNION {Range(components.nodes[i].children) : i \in B}

\* the source nodes of the scene: its roots and their descendants
SceneDescendants == Below(Range(components.scene), components.nodesLength)

SourceIndices == 0 .. (components.nodesLength - 1)

DefinedNodes == {i \in DOMAIN runtimeNodes : runtimeNodes[i].defined}

\* ------------------------------------------------------------ construction claims
\* C1: after construction the runtime-node array has one entry per source node,
\* and the entry at every index i is a runtime node wrapping source node i (no
\* position is left empty).
C1_EveryNodeHasItsRuntimeNode ==
  phase = "constructed" =>
    /\ DOMAIN runtimeNodes = SourceIndices
    /\ \A i \in SourceIndices : runtimeNodes[i].defined /\ runtimeNodes[i].node = i

\* C2: after the skin-resolution pass every joint index of every declared skin
\* addresses a position of the runtime-node array that holds a runtime node.
C2_NoDanglingJoint ==
  phase # "new" =>
    /\ Len(runtimeSkins) = Len(components.skins)
    /\ \A k \in 1 .. Len(runtimeSkins) :
         \A q \in 1 .. Len(runtimeSkins[k].joints) :
           /\ runtimeSkins[k].joints[q] \in DOMAIN runtimeNodes
           /\ runtimeNodes[runtimeSkins[k].joints[q]].defined

\* ------------------------------------------------------------ dirty-flag claims
\* C3: a call of updateModelMatrix that returns leaves every declared root dirty
\* and the dirty flag of every other node as it was; nothing else of a node
\* changes.
C3_ExactlyRootsMarked ==
  [][(last'.op = "updateModelMatrix" /\ last'.ok) =>
       /\ DOMAIN runtimeNodes' = DOMAIN runtimeNodes
       /\ \A i \in DOMAIN runtimeNodes :
            runtimeNodes'[i] =
              [runtimeNodes[i] EXCEPT !.transformDirty =
                 IF i \in Range(rootNodes) THEN TRUE
                 ELSE runtimeNodes[i].transformDirty]]_vars

\* C3 witness: updateModelMatrix has returned on a graph with a root, a non-root
\* node that was and is dirty and a non-root node that was and is clean.
C3_Witness ==
  /\ last.op = "updateModelMatrix"
  /\ last.ok
  /\ rootNodes # << >>
  /\ \E i, j \in DefinedNodes \ Range(rootNodes) :
       runtimeNodes[i].transformDirty /\ ~runtimeNodes[j].transformDirty

\* C4: after updateModelMatrix and one completed update, every descendant of
\* every root has had its transform recomputed in that update and no node is
\* left dirty, whatever the indices of the nodes.
C4_OneUpdateReachesEveryDescendant ==
  [][(last.op = "updateModelMatrix" /\ last.ok /\ last'.op = "update" /\ last'.ok) =>
       /\ \A i \in SceneDescendants : Ev("recompute", i, 0) \in Range(last'.events)
       /\ \A i \in DOMAIN runtimeNodes' : ~runtimeNodes'[i].transformDirty]_vars

\* ------------------------------------------------------------ pipeline selection
\* a model of one root node with one primitive
OneNodeModel ==
  Components(1, [i \in 0 .. 0 |-> NoIndex], FALSE, << 0 >>,
             [i \in 0 .. 0 |-> << Box(0, 2) >>], Unskinned(1), NodeMatricesOf(1),
             << >>, IDENTITY, "Y")

InitPipeline == Unconstructed(OneNodeModel, Model0)

NextPipeline ==
  \/ Construct
  \/ ChangeModel
  \/ ConfigurePipeline
  \/ BuildDrawCommandsIn(FALSE)

SpecPipeline == InitPipeline /\ [][NextPipeline]_vars

\* the position of a stage in the fixed order color, lighting, clipping, split
StageRank(stage) ==
  CASE stage = ColorStage -> 1
    [] stage = LightingStage -> 2
    [] stage = ClippingStage -> 3
    [] stage = SplitterStage -> 4
    [] OTHER -> 0

JustConfigured == last.op \in {"configurePipeline", "buildDrawCommands"}

\* C5: after configurePipeline the stage list holds the color stage iff the model
\* has a color, the lighting stage iff image-based lighting is enabled, the
\* clipping stage iff clipping is enabled and the splitter stage iff the split
\* direction is set and not NONE, each at most once and in that relative order.
C5_StagesMatchFlags ==
  JustConfigured =>
    LET stages == modelPipelineStages
    IN /\ (ColorStage \in Range(stages)) <=> model.color
       /\ (LightingStage \in Range(stages)) <=> model.imageBasedLighting
       /\ (ClippingStage \in Range(stages)) <=> model.clippingEnabled
       /\ (SplitterStage \in Range(stages)) <=>
            model.splitDirection \notin {"undefined", "NONE"}
       /\ \A x, y \in 1 .. Len(stages) :
            x < y => 0 < StageRank(stages[x]) /\ StageRank(stages[x]) < StageRank(stages[y])

\* C5 witness: a rebuild has configured all four stages.
C5_Witness ==
  /\ last.op = "buildDrawCommands"
  /\ Len(modelPipelineStages) = 4

Without(stages, stage) ==
  LET Keep(x) == x # stage IN SelectSeq(stages, Keep)

\* C6: the stage list a rebuild leaves depends only on the flags at that rebuild:
\* of two consecutive rebuilds, equal flags give equal lists, and clipping on at
\* the first and off at the second (the other flags equal) gives lists that
\* differ only by the clipping stage.
C6_StagesDependOnFlagsOnly ==
  Len(rebuilds) = 2 =>
    LET before == rebuilds[1]
        after == rebuilds[2]
    IN /\ after.stages = modelPipelineStages
       /\ before.flags = after.flags => before.stages = after.stages
       /\ ( /\ before.flags.clippingEnabled
            /\ after.flags = [before.flags EXCEPT !.clippingEnabled = FALSE] ) =>
            /\ ClippingStage \in Range(before.stages)
            /\ ClippingStage \notin Range(after.stages)
            /\ after.stages = Without(before.stages, ClippingStage)

\* C6 witness: clipping was on at one rebuild and off at the next, the other
\* flags unchanged and not all off.
C6_Witness ==
  /\ Len(rebuilds) = 2
  /\ rebuilds[1].flags.clippingEnabled
  /\ rebuilds[2].flags = [rebuilds[1].flags EXCEPT !.clippingEnabled = FALSE]
  /\ rebuilds[2].stages # << >>
  /\ last.op = "buildDrawCommands"
  /\ buildCount = 2

\* ------------------------------------------------------------ draw commands
\* the primitive lists of a node: none, one or two primitives
PrimitiveLists == {<< >>, << Box(0, 2) >>, << Box(0, 2), Box(2, 6) >>}

RECURSIVE TotalLen(_, _)
\* the sum of the lengths of the lists f[0] .. f[n-1]
TotalLen(f, n) == IF n = 0 THEN 0 ELSE TotalLen(f, n - 1) + Len(f[n - 1])

\* flat models of at most MaxNodes nodes, each with at most two primitives and at
\* most three primitives in all; the last node may be left out of the scene
InitDraw ==
  \E n \in 0 .. MaxNodes :
    \E prims \in [0 .. (n - 1) -> PrimitiveLists], S \in {0 .. (n - 1), 0 .. (n - 2)} :
      /\ TotalLen(prims, n) <= 3
      /\ Unconstructed(
           Components(n, [i \in 0 .. (n - 1) |-> NoIndex], FALSE, Ordered(S, FALSE),
                      prims, Unskinned(n), NodeMatricesOf(n), << >>, IDENTITY, "Y"),
           Model0)

NextDraw ==
  \/ Construct
  \/ BuildDrawCommandsIn(TRUE)
  \/ UpdateBackFaceCulling
  \/ UpdateShadows
  \/ UpdateShowBoundingVolume

SpecDraw == InitDraw /\ [][NextDraw]_vars

RECURSIVE SumPrimitives(_)
\* the number of primitives of the source nodes 0 .. n-1
SumPrimitives(n) ==
  IF n = 0 THEN 0
  ELSE SumPrimitives(n - 1) + Len(components.nodes[n - 1].primitives)

\* C7: after a completed buildDrawCommands every runtime primitive holds one draw
\* command, the one this rebuild produced, and getDrawCommands returns as many
\* commands as the model has primitives.
C7_OneCommandPerPrimitive ==
  (last.op = "buildDrawCommands" /\ last.ok) =>
    /\ \A i \in DOMAIN runtimeNodes :
         /\ runtimeNodes[i].defined
         /\ Len(runtimeNodes[i].runtimePrimitives) = Len(components.nodes[i].primitives)
         /\ \A j \in 1 .. Len(runtimeNodes[i].runtimePrimitives) :
              LET drawCommand == runtimeNodes[i].runtimePrimitives[j].drawCommand
              IN drawCommand.defined /\ drawCommand.build = buildCount
    /\ getDrawCommands(runtimeNodes).ok
    /\ Len(getDrawCommands(runtimeNodes).commands) = SumPrimitives(components.nodesLength)

\* C7 witness: the second rebuild of a model of two roots with one primitive
\* each has completed and getDrawCommands returns 2 commands.
C7_Witness ==
  /\ last.op = "buildDrawCommands"
  /\ last.ok
  /\ buildCount = 2
  /\ Len(rootNodes) = 2
  /\ \A i \in DOMAIN runtimeNodes : Len(runtimeNodes[i].runtimePrimitives) = 1
  /\ Len(getDrawCommands(runtimeNodes).commands) = 2

SetterNames == {"backFaceCulling", "shadows", "debugShowBoundingVolume"}

\* the draw command with the setter's field assigned the setter's argument
WithField(drawCommand, call) ==
  [defined |-> drawCommand.defined,
   build |-> drawCommand.build,
   backFaceCulling |-> IF call.op = "backFaceCulling" THEN call.arg.flag
                       ELSE drawCommand.backFaceCulling,
   shadows |-> IF call.op = "shadows" THEN call.arg.value ELSE drawCommand.shadows,
   debugShowBoundingVolume |-> IF call.op = "debugShowBoundingVolume" THEN call.arg.flag
                               ELSE drawCommand.debugShowBoundingVolume]

\* C8: once a buildDrawCommands has completed, each of the three setters returns
\* and sets its field to its argument on the draw command of every runtime
\* primitive, and changes no other field of a draw command and nothing else of
\* the scene graph or the model.
C8_SettersBroadcast ==
  [][(last'.op \in SetterNames /\ boundingSphere.defined) =>
       /\ last'.ok
       /\ DOMAIN runtimeNodes' = DOMAIN runtimeNodes
       /\ \A i \in DOMAIN runtimeNodes :
            /\ Len(runtimeNodes'[i].runtimePrimitives) =
                 Len(runtimeNodes[i].runtimePrimitives)
            /\ [runtimeNodes'[i] EXCEPT !.runtimePrimitives = << >>] =
                 [runtimeNodes[i] EXCEPT !.runtimePrimitives = << >>]
            /\ \A j \in 1 .. Len(runtimeNodes[i].runtimePrimitives) :
                 LET old == runtimeNodes[i].runtimePrimitives[j]
                     new == runtimeNodes'[i].runtimePrimitives[j]
                 IN /\ new.primitive = old.primitive
                    /\ new.boundingSphere = old.boundingSphere
                    /\ new.drawCommand = WithField(old.drawCommand, last')
       /\ UNCHANGED << phase, components, model, rootNodes, skinnedNodes,
                       runtimeSkins, modelPipelineStages, boundingSphere,
                       boundingSphere2D, computedModelMatrix, computedModelMatrix2D,
                       buildCount, rebuilds >>]_vars

\* C8 witness: updateShadows has returned on a model with three primitives whose
\* draw commands come from different rebuilds and all hold the new shadow mode,
\* which is not the mode a fresh command has.
C8_Witness ==
  /\ last.op = "shadows"
  /\ last.ok
  /\ boundingSphere.defined
  /\ Len(getDrawCommands(runtimeNodes).commands) = 3
  /\ \E x, y \in Range(getDrawCommands(runtimeNodes).commands) : x.build # y.build
  /\ \A x \in Range(getDrawCommands(runtimeNodes).commands) :
       x.shadows = last.arg.value /\ x.shadows # buildDrawCommand(0).shadows

\* ------------------------------------------------------------ 2D model matrix
\* a model of one root node with one primitive, with or without a static
\* transform, y-up or z-up, at two scales, its box centered at the origin or not
InitMatrix ==
  \E transform \in {IDENTITY, [a |-> 1, b |-> 2]}, upAxis \in {"Y", "Z"},
     scale \in {1, 2}, box \in {Box(0, 2), Box(0 - 2, 2)} :
    Unconstructed(
      Components(1, [i \in 0 .. 0 |-> NoIndex], FALSE, << 0 >>,
                 [i \in 0 .. 0 |-> << box >>], Unskinned(1), NodeMatricesOf(1),
                 << >>, transform, upAxis),
      [Model0 EXCEPT !.computedScale = scale, !.clampedScale = scale])

NextMatrix ==
  \/ Construct
  \/ BuildDrawCommandsIn(FALSE)
  \/ UpdateModelMatrix

SpecMatrix == InitMatrix /\ [][NextMatrix]_vars

\* C9: updateModelMatrix leaves the 2D matrix and the 2D bounding sphere alone in
\* a 3D frame; in any other frame a returning call recomputes both, the matrix by
\* the origin-centered conversion (at the bounding sphere's center) iff the
\* translation of the freshly composed model matrix is zero, and by the general
\* basis conversion otherwise.
C9_Matrix2DPath ==
  [][last'.op = "updateModelMatrix" =>
       /\ last'.arg.mode = "SCENE3D" =>
            /\ computedModelMatrix2D' = computedModelMatrix2D
            /\ boundingSphere2D' = boundingSphere2D
       /\ (last'.arg.mode # "SCENE3D" /\ last'.ok) =>
            /\ computedModelMatrix2D'.m = computedModelMatrix'
            /\ computedModelMatrix2D'.path =
                 IF computedModelMatrix'.b = 0 THEN "wgs84To2DModelMatrix"
                 ELSE "basisTo2D"
            /\ computedModelMatrix'.b = 0 =>
                 computedModelMatrix2D'.center = boundingSphere.center
            /\ boundingSphere2D'.defined]_vars

\* C9 witness: in a frame that is not 3D, updateModelMatrix has returned with a
\* placement whose translation is not zero while the composed translation is, and
\* the 2D matrix is the origin-centered one.
C9_Witness ==
  /\ last.op = "updateModelMatrix"
  /\ last.ok
  /\ last.arg.mode = "COLUMBUS_VIEW"
  /\ last.arg.matrix.b # 0
  /\ computedModelMatrix.b = 0
  /\ computedModelMatrix2D.path = "wgs84To2DModelMatrix"
  /\ boundingSphere2D.defined

\* ------------------------------------------------------------ joint refresh
\* flat models of at most MaxNodes nodes with one primitive each, any subset of
\* the nodes in the scene; no skin, or one skin with one joint, on any nodes;
\* the model projects to 2D or not
InitUpdate ==
  \E n \in 0 .. MaxNodes :
    \E S \in SUBSET (0 .. (n - 1)), skins \in SkinLists(n), project \in BOOLEAN :
      \E skinOf \in [0 .. (n - 1) -> {NoIndex} \cup (0 .. (Len(skins) - 1))] :
        /\ \A k \in 1 .. Len(skins) : Len(skins[k].joints) = 1
        /\ Unconstructed(
             Components(n, [i \in 0 .. (n - 1) |-> NoIndex], FALSE, Ordered(S, FALSE),
                        [i \in 0 .. (n - 1) |-> << Box(0, 2) >>], skinOf,
                        NodeMatricesOf(n), skins, IDENTITY, "Y"),
             [Model0 EXCEPT !.projectTo2D = project])

NextUpdate ==
  \/ Construct
  \/ Update
  \/ UpdateJointMatrices
  \/ UpdateModelMatrixIn({IDENTITY}, {"SCENE3D"})

SpecUpdate == InitUpdate /\ [][NextUpdate]_vars

\* the nodes whose iteration a call of update has entered
Visited(call) ==
  {i \in DOMAIN runtimeNodes : Ev("nodeUpdate", i, 0) \in Range(call.events)}

\* C10: in update, the iteration of every node refreshes the joint matrices of
\* all skinned nodes iff updateForAnimations is true and it is not the case that
\* the frame is not 3D while the model projects to 2D; when the refresh is
\* suppressed no joint matrix changes, and the update stages of the primitives of
\* every visited node run all the same; an update that returns visits every node.
C10_JointRefreshCondition ==
  [][last'.op = "update" =>
       LET enabled == /\ last'.arg.flag
                      /\ ~(last'.arg.mode # "SCENE3D" /\ model.projectTo2D)
           events == Range(last'.events)
       IN /\ \A i \in Visited(last') :
               /\ \A s \in Range(skinnedNodes) :
                    (Ev("jointRefresh", s, i) \in events) <=> enabled
               /\ \A j \in 1 .. Len(runtimeNodes[i].runtimePrimitives) :
                    Ev("primitiveUpdate", i, j) \in events
          /\ ~enabled =>
               /\ \A ev \in events : ev.e # "jointRefresh"
               /\ \A i \in DOMAIN runtimeNodes :
                    runtimeNodes'[i].jointMatrices = runtimeNodes[i].jointMatrices
          /\ last'.ok => Visited(last') = DOMAIN runtimeNodes]_vars

\* C10 witness: update has returned in a 2D frame with updateForAnimations true on
\* a model that projects to 2D and has a skinned node: no joint matrix was
\* refreshed, the node and primitive update stages ran.
C10_Witness ==
  /\ last.op = "update"
  /\ last.ok
  /\ last.arg.flag
  /\ last.arg.mode = "SCENE2D"
  /\ model.projectTo2D
  /\ skinnedNodes # << >>
  /\ \A ev \in Range(last.events) : ev.e # "jointRefresh"
  /\ \E ev \in Range(last.events) : ev.e = "primitiveUpdate"
  /\ Visited(last) = DOMAIN runtimeNodes
  /\ runtimeNodes # << >>

\* ------------------------------------------------------------ composed matrix
\* placements that scale as well as translate, so that the order of the factors
\* of the composition shows
ComposePlacements == {IDENTITY, [a |-> 1, b |-> 4], [a |-> 2, b |-> 1]}

\* a model of one root node without primitives; the static transform, the up
\* axis, the scale and the placement the model starts with vary
InitCompose ==
  \E transform \in {IDENTITY, [a |-> 1, b |-> 2], [a |-> 3, b |-> 2]},
     upAxis \in {"Y", "Z"}, scale \in {1, 2},
     placement \in {IDENTITY, [a |-> 2, b |-> 1]} :
    Unconstructed(
      Components(1, [i \in 0 .. 0 |-> NoIndex], FALSE, << 0 >>, NoPrimitives(1),
                 Unskinned(1), NodeMatricesOf(1), << >>, transform, upAxis),
      [Model0 EXCEPT !.computedScale = scale, !.clampedScale = scale,
                     !.modelMatrix = placement])

NextCompose ==
  \/ Construct
  \/ UpdateModelMatrixIn(ComposePlacements, {"SCENE3D", "SCENE2D"})

SpecCompose == InitCompose /\ [][NextCompose]_vars

\* the map x |-> m(t(c(s * x))) written out: placement m, static transform t,
\* axis correction c, uniform scale s
Composed(m, t, c, s) ==
  [a |-> m.a * t.a * c.a * s, b |-> m.a * (t.a * c.b + t.b) + m.b]

\* C11: the constructor and every updateModelMatrix(m) leave the composed model
\* matrix equal to placement o static transform o axis correction o uniform
\* scale, whatever it was before; two calls in a row with the same placement
\* leave the same matrix.
C11_ComposedAfresh ==
  [][/\ last'.op = "construct" =>
          computedModelMatrix' =
            Composed(model.modelMatrix, components.transform,
                     getAxisCorrectionMatrix(components.upAxis,
                                             components.forwardAxis),
                     model.computedScale)
     /\ last'.op = "updateModelMatrix" =>
          /\ computedModelMatrix' =
               Composed(last'.arg.matrix, components.transform,
                        getAxisCorrectionMatrix(components.upAxis,
                                                components.forwardAxis),
                        model.computedScale)
          /\ (last.op = "updateModelMatrix" /\ last.arg.matrix = last'.arg.matrix)
               => computedModelMatrix' = computedModelMatrix]_vars

\* C11 witness: updateModelMatrix has run with a placement that scales, on a
\* y-up model of scale 2 whose static transform scales and translates, after
\* the composed matrix was something else than the identity.
C11_Witness ==
  /\ last.op = "updateModelMatrix"
  /\ last.arg.matrix = [a |-> 2, b |-> 1]
  /\ components.transform = [a |-> 3, b |-> 2]
  /\ components.upAxis = "Y"
  /\ model.computedScale = 2
  /\ computedModelMatrix = [a |-> 0 - 12, b |-> 5]

\* ------------------------------------------------------------ required options
\* the options without model components, and without a model
NoComponents ==
  [Components(0, << >>, FALSE, << >>, << >>, << >>, << >>, << >>, IDENTITY, "Y")
     EXCEPT !.defined = FALSE]

NoModel == [Model0 EXCEPT !.defined = FALSE]

\* every forest of at most MaxNodes nodes with one primitive and a skin on its
\* first node, or no components; a model or none
InitOptions ==
  \E m \in {Model0, NoModel} :
    \/ Unconstructed(NoComponents, m)
    \/ \E n \in 1 .. MaxNodes :
         \E p \in ParentMaps(n) :
           \E S \in SUBSET ParentlessNodes(p, n) :
             Unconstructed(
               Components(n, p, FALSE, Ordered(S, FALSE),
                          [i \in 0 .. (n - 1) |-> << Box(0, 2) >>],
                          [i \in 0 .. (n - 1) |-> IF i = 0 THEN 0 ELSE NoIndex],
                          NodeMatricesOf(n),
                          << [index |-> 0, joints |-> << 0 >>] >>, IDENTITY, "Y"),
               m)

NextOptions == Construct

SpecOptions == InitOptions /\ [][NextOptions]_vars

\* C12: a constructor called without a model or without model components throws,
\* and has created no runtime node, root index, skinned-node index or runtime
\* skin when it does; the caller receives no scene graph.
C12_MissingOptionFailsFirst ==
  (phase # "new" /\ (~model.defined \/ ~components.defined)) =>
    /\ phase = "failed"
    /\ last.op = "construct"
    /\ ~last.ok
    /\ runtimeNodes = << >>
    /\ rootNodes = << >>
    /\ skinnedNodes = << >>
    /\ runtimeSkins = << >>
    /\ \A ev \in Range(last.events) : ev.e \notin {"node", "skin", "joints"}

\* C12 witness: the constructor has thrown for a missing model although the
\* components given describe a skinned root node.
C12_Witness ==
  /\ phase = "failed"
  /\ ~model.defined
  /\ components.defined
  /\ components.scene # << >>
  /\ components.nodes[0].skin # NoIndex
  /\ ~last.ok
  /\ runtimeNodes = << >>

\* ------------------------------------------------------------ bounding sphere
\* the primitives of the stored runtime nodes
StoredPrimitives ==
  {<< i, j >> \in (DOMAIN runtimeNodes) \X (1 .. 3) :
     runtimeNodes[i].defined /\ j <= Len(runtimeNodes[i].runtimePrimitives)}

\* C13: buildDrawCommands on a scene graph without primitives (every position
\* of the runtime-node array holding a node) returns, and leaves a model-space
\* bounding sphere of radius zero.
C13_EmptyModelSphereDegenerate ==
  (/\ last.op = "buildDrawCommands"
   /\ DefinedNodes = DOMAIN runtimeNodes
   /\ StoredPrimitives = {}) =>
    /\ last.ok
    /\ boundingSphere.defined
    /\ boundingSphere.radius = 0

\* ------------------------------------------------------------ corners in the plane
\* A box of the line has two corners only.  To tell the two extreme corners of
\* a box from its other corners, the bounding-sphere computation of
\* buildDrawCommands is modelled here in the plane: points are pairs, matrices
\* are affine maps of the plane [xx, xy, yx, yy: linear part; tx, ty:
\* translation].  A sphere is kept as twice its center and the square of its
\* diameter, so that the midpoint and the distance are exact in integers.
PlanarMatrix(xx, xy, yx, yy, tx, ty) ==
  [xx |-> xx, xy |-> xy, yx |-> yx, yy |-> yy, tx |-> tx, ty |-> ty]

PLANAR_IDENTITY == PlanarMatrix(1, 0, 0, 1, 0, 0)

\* Matrix4.multiplyTransformation, in the plane
multiplyTransformationPlanar(left, right) ==
  PlanarMatrix(left.xx * right.xx + left.xy * right.yx,
               left.xx * right.xy + left.xy * right.yy,
               left.yx * right.xx + left.yy * right.yx,
               left.yx * right.xy + left.yy * right.yy,
               left.xx * right.tx + left.xy * right.ty + left.tx,
               left.yx * right.tx + left.yy * right.ty + left.ty)

\* Matrix4.multiplyByPoint, in the plane
multiplyByPointPlanar(m, p) ==
  << m.xx * p[1] + m.xy * p[2] + m.tx, m.yx * p[1] + m.yy * p[2] + m.ty >>

\* Cartesian3.minimumByComponent, Cartesian3.maximumByComponent
minimumByComponent(first, second) ==
  << Min2(first[1], second[1]), Min2(first[2], second[2]) >>

maximumByComponent(first, second) ==
  << Max2(first[1], second[1]), Max2(first[2], second[2]) >>

SquaredLength(p) == p[1] * p[1] + p[2] * p[2]

\* BoundingSphere.fromCornerPoints: the center is the midpoint of the corners,
\* the radius the distance from the center to the opposite corner
fromCornerPointsPlanar(corner, oppositeCorner) ==
  LET center2 == << corner[1] + oppositeCorner[1], corner[2] + oppositeCorner[2] >>
  IN [defined |-> TRUE, center2 |-> center2,
      diameterSquared |->
        SquaredLength(<< 2 * oppositeCorner[1] - center2[1],
                         2 * oppositeCorner[2] - center2[2] >>)]

\* BoundingSphere.transformWithoutScale: the center is mapped, the radius kept
transformWithoutScalePlanar(sphere, m) ==
  [sphere EXCEPT !.center2 =
     << m.xx * sphere.center2[1] + m.xy * sphere.center2[2] + 2 * m.tx,
        m.yx * sphere.center2[1] + m.yy * sphere.center2[2] + 2 * m.ty >>]

\* ModelExperimentalUtility.getAxisCorrectionMatrix, in the plane: a quarter
\* turn for a y-up model, the identity for a z-up model
getAxisCorrectionMatrixPlanar(upAxis) ==
  IF upAxis = "Y" THEN PlanarMatrix(0, 0 - 1, 1, 0, 0, 0) ELSE PLANAR_IDENTITY

\* runtimeNode.computedTransform, in the plane
computedTransformPlanar(rn) ==
  multiplyTransformationPlanar(rn.transformToRoot, rn.transform)

\* the node matrices of the parent: the identity, a translation, a uniform and
\* a non-uniform scale
ParentMatrices ==
  {PLANAR_IDENTITY, PlanarMatrix(1, 0, 0, 1, 3, 0 - 1), PlanarMatrix(2, 0, 0, 2, 0, 0),
   PlanarMatrix(2, 0, 0, 1, 0, 0)}

\* the node matrices of the child: the identity, a translation, a quarter turn,
\* a half turn, an eighth turn (with the uniform scale that keeps it integer),
\* a non-uniform scale and a mirror
ChildMatrices ==
  {PLANAR_IDENTITY, PlanarMatrix(1, 0, 0, 1, 1, 2), PlanarMatrix(0, 0 - 1, 1, 0, 0, 0),
   PlanarMatrix(0 - 1, 0, 0, 0 - 1, 0, 0), PlanarMatrix(1, 0 - 1, 1, 1, 0, 0),
   PlanarMatrix(1, 0, 0, 3, 0, 0), PlanarMatrix(0 - 1, 0, 0, 1, 0, 0)}

PlanarBoxes ==
  {Box(<< 0, 0 >>, << 2, 2 >>), Box(<< 0 - 1, 0 >>, << 3, 2 >>),
   Box(<< 1, 1 >>, << 1, 1 >>)}

\* the scene graph the constructor leaves for a root node 0 without primitives
\* and its child 1 with one primitive
InitCorners ==
  \E parent \in ParentMatrices, child \in ChildMatrices, box \in PlanarBoxes,
     upAxis \in {"Y", "Z"} :
    /\ phase = "constructed"
    /\ components =
         Components(2, [i \in 0 .. 1 |-> IF i = 1 THEN 0 ELSE NoIndex], FALSE, << 0 >>,
                    [i \in 0 .. 1 |-> IF i = 1 THEN << box >> ELSE << >>],
                    Unskinned(2), [i \in 0 .. 1 |-> IF i = 1 THEN child ELSE parent],
                    << >>, IDENTITY, upAxis)
    /\ model = Model0
    /\ runtimeNodes =
         [i \in 0 .. 1 |->
            IF i = 0
            THEN NewRuntimeNode(components.nodes[0], parent, PLANAR_IDENTITY, << 1 >>)
            ELSE [NewRuntimeNode(components.nodes[1], child,
                                 multiplyTransformationPlanar(PLANAR_IDENTITY, parent),
                                 << >>)
                    EXCEPT !.runtimePrimitives = << NewRuntimePrimitive(box) >>]]
    /\ rootNodes = << 0 >>
    /\ skinnedNodes = << >>
    /\ runtimeSkins = << >>
    /\ modelPipelineStages = << >>
    /\ boundingSphere = NoSphere
    /\ boundingSphere2D = NoSphere
    /\ computedModelMatrix = IDENTITY
    /\ computedModelMatrix2D = NoMatrix2D
    /\ buildCount = 0
    /\ rebuilds = << >>
    /\ last = Call("construct", NoArg, TRUE, << Ev("node", 1, 0), Ev("node", 0, 0) >>)
    /\ propertyArray = NoPropertyArray
    /\ propertyCall = NoPropertyCall

\* buildDrawCommands on that scene graph, no stage failing, the bounding
\* sphere computed in the plane; the placement matrix of the model is the
\* identity, so the model's sphere is the scene graph's
BuildDrawCommandsPlanar ==
  /\ phase = "constructed"
  /\ buildCount < MaxBuilds
  /\ LET stages == configurePipeline(modelPipelineStages, model)
         stamp == buildCount + 1
         runtimeNode == runtimeNodes[1]
         rp == runtimeNode.runtimePrimitives[1]
         nodeTransform == computedTransformPlanar(runtimeNode)
         primitivePositionMin ==
           multiplyByPointPlanar(nodeTransform, rp.primitive.positionMin)
         primitivePositionMax ==
           multiplyByPointPlanar(nodeTransform, rp.primitive.positionMax)
         modelPositionMin ==
           minimumByComponent(<< MAX_VALUE, MAX_VALUE >>, primitivePositionMin)
         modelPositionMax ==
           maximumByComponent(<< 0 - MAX_VALUE, 0 - MAX_VALUE >>, primitivePositionMax)
         sphere ==
           transformWithoutScalePlanar(
             fromCornerPointsPlanar(modelPositionMin, modelPositionMax),
             getAxisCorrectionMatrixPlanar(components.upAxis))
         built == AssignDrawCommand(
                    [rp EXCEPT !.boundingSphere =
                       fromCornerPointsPlanar(rp.primitive.positionMin,
                                              rp.primitive.positionMax)],
                    buildDrawCommand(stamp))
     IN /\ buildCount' = stamp
        /\ modelPipelineStages' = stages
        /\ runtimeNodes' = [runtimeNodes EXCEPT ![1].runtimePrimitives[1] = built]
        /\ boundingSphere' = sphere
        /\ model' = [model EXCEPT !.statistics = 1, !.boundingSphere = sphere,
                                  !.initialRadius = sphere.diameterSquared]
        /\ rebuilds' = Rebuilt(stages, model)
        /\ last' = Call("buildDrawCommands", NoArg, TRUE,
                        << Ev("clear", 0, 0) >> \o ModelStageEvents(Len(stages)) \o
                        << Ev("nodeStages", 0, 0), Ev("nodeStages", 1, 0),
                           Ev("primitiveStages", 1, 1), Ev("drawCommand", 1, 1),
                           Ev("boundingSphere", 0, 0) >>)
  /\ UNCHANGED << propertyArray, propertyCall >>
  /\ UNCHANGED << phase, components, rootNodes, skinnedNodes, runtimeSkins,
                  boundingSphere2D, computedModelMatrix, computedModelMatrix2D >>

NextCorners == BuildDrawCommandsPlanar

SpecCorners == InitCorners /\ [][NextCorners]_vars

\* the four corners of a box of the plane
BoxCorners(box) ==
  {<< x, y >> : x \in {box.positionMin[1], box.positionMax[1]},
                y \in {box.positionMin[2], box.positionMax[2]}}

\* whether the sphere contains the point
Contains(sphere, p) ==
  SquaredLength(<< 2 * p[1] - sphere.center2[1], 2 * p[2] - sphere.center2[2] >>)
    <= sphere.diameterSquared

\* C14: after buildDrawCommands on a model with one primitive, the model-space
\* bounding sphere contains every corner of the primitive's position box, taken
\* through the node's accumulated transform and the axis correction.
C14_SphereBoundsBox ==
  last.op = "buildDrawCommands" =>
    LET box == runtimeNodes[1].runtimePrimitives[1].primitive
        toModel == multiplyTransformationPlanar(
                     getAxisCorrectionMatrixPlanar(components.upAxis),
                     multiplyTransformationPlanar(components.nodes[0].matrix,
                                                  components.nodes[1].matrix))
    IN \A p \in BoxCorners(box) :
         Contains(boundingSphere, multiplyByPointPlanar(toModel, p))

\* ------------------------------------------------------------ every operation
\* number of entries of components.nodes when every operation is exercised
MaxFrameNodes == 2

\* every forest of at most MaxFrameNodes nodes, any subset of its parentless
\* nodes in the scene; node 0 has one primitive and, in half of the models, a
\* skin whose joint is the last node
InitFrame ==
  \E n \in 0 .. MaxFrameNodes :
    \E p \in ParentMaps(n), skinned \in BOOLEAN :
      \E S \in SUBSET ParentlessNodes(p, n) :
        /\ skinned => n > 0
        /\ Unconstructed(
             Components(n, p, FALSE, Ordered(S, FALSE),
                        [i \in 0 .. (n - 1) |-> IF i = 0 THEN << Box(0, 2) >> ELSE << >>],
                        [i \in 0 .. (n - 1) |->
                           IF skinned /\ i = 0 THEN 0 ELSE NoIndex],
                        NodeMatricesOf(n),
                        IF skinned THEN << [index |-> 0, joints |-> << n - 1 >>] >>
                        ELSE << >>,
                        IDENTITY, "Y"),
             Model0)

NextFrame ==
  \/ Construct
  \/ BuildDrawCommandsIn(FALSE)
  \/ UpdateIn({"SCENE3D"}, {TRUE})
  \/ UpdateModelMatrixIn({[a |-> 1, b |-> 4]}, {"SCENE3D"})
  \/ UpdateJointMatrices
  \/ Setter("backFaceCulling", [NoArg EXCEPT !.flag = FALSE])
  \/ Setter("shadows", [NoArg EXCEPT !.value = "DISABLED"])
  \/ Setter("debugShowBoundingVolume", [NoArg EXCEPT !.flag = TRUE])
  \/ GetDrawCommands

SpecFrame == InitFrame /\ [][NextFrame]_vars

\* the structure of the scene graph: which positions of the runtime-node array
\* there are, which node sits at each and with which children, and the three
\* index lists
Structure(rn, roots, skinnedList, skins) ==
  [nodes |-> [i \in DOMAIN rn |->
                [defined |-> rn[i].defined, node |-> rn[i].node,
                 children |-> rn[i].children]],
   rootNodes |-> roots, skinnedNodes |-> skinnedList, runtimeSkins |-> skins]

\* C15: no operation on a constructed scene graph, returning or throwing, changes
\* the length of the runtime-node array, the node at any index, any child list,
\* the root list, the skinned-node list or the runtime-skin list.
C15_StructureFrozen ==
  [][phase = "constructed" =>
       Structure(runtimeNodes', rootNodes', skinnedNodes', runtimeSkins') =
         Structure(runtimeNodes, rootNodes, skinnedNodes, runtimeSkins)]_vars

\* C15 witness: on a scene graph of a root with a child, a skinned node and a
\* primitive, a second rebuild has run after the nodes were marked dirty and
\* updated, and the child is still the child.
C15_Witness ==
  /\ phase = "constructed"
  /\ buildCount = 2
  /\ last.op = "update"
  /\ last.ok
  /\ Ev("recompute", 1, 0) \in Range(last.events)
  /\ skinnedNodes # << >>
  /\ \E i \in DefinedNodes : runtimeNodes[i].children # << >>

\* ------------------------------------------------------------ two-phase construction
\* the positions of the events named e in the log of a call
EventPositions(call, e) == {k \in 1 .. Len(call.events) : call.events[k].e = e}

\* the source nodes that declare a skin
SkinnedSourceNodes == {i \in SourceIndices : components.nodes[i].skin # NoIndex}

\* C16: the constructor creates no runtime skin before the last runtime node is
\* stored; when it has returned, the skinned-node list holds the indices of the
\* source nodes that declare a skin, each once, and the runtime skin of each of
\* these runtime nodes is the one built from the skin its source node declares.
C16_TwoPhaseSkins ==
  /\ last.op = "construct" =>
       \A s \in EventPositions(last, "skin"), k \in EventPositions(last, "node") : k < s
  /\ phase = "constructed" =>
       /\ Range(skinnedNodes) = SkinnedSourceNodes
       /\ Len(skinnedNodes) = Cardinality(SkinnedSourceNodes)
       /\ \A i \in Range(skinnedNodes) :
            /\ runtimeNodes[i].defined
            /\ runtimeNodes[i].runtimeSkin = components.nodes[i].skin
            /\ runtimeSkins[runtimeNodes[i].runtimeSkin + 1] =
                 NewRuntimeSkin(components.skins[components.nodes[i].skin + 1])

\* ------------------------------------------------------------ PositionPropertyArray
\* number of Property instances that can be items of the array
MaxItems == 2
\* length of the arrays given to setValue
MaxLength == 2

\* the Property instances; item 0 of an array stands for an undefined entry
Items == 1 .. MaxItems

\* the arguments of setValue: undefined, or an array of items and undefined
\* entries
ArrayValues ==
  {NoValue} \cup
  {[defined |-> TRUE, items |-> s] :
     s \in UNION {[1 .. n -> 0 .. MaxItems] : n \in 0 .. MaxLength}}

ReferenceFrames == {"FIXED", "INERTIAL"}

\* eventHelper.removeAll(): the items whose subscription is removed
removeAll(pa) == pa.subscriptions

\* variant: setValue subscribes to the new items without removing the
\* subscriptions it holds
setValueKeepingSubscriptions(pa, value) ==
  IF value.defined
  THEN [pa EXCEPT !.value = value, !.length = Len(value.items),
                  !.subscriptions =
                    pa.subscriptions \o SelectSeq(value.items, LAMBDA x : x # 0)]
  ELSE [pa EXCEPT !.value = NoValue, !.length = 0]

\* PositionPropertyArray.prototype.setValue: every subscription is removed, the
\* array is copied and the definitionChanged events of its defined items are
\* subscribed to, one subscription per occurrence
setValue(pa, value) ==
  IF value.defined
  THEN [pa EXCEPT !.value = value, !.length = Len(value.items),
                  !.subscriptions = SelectSeq(value.items, LAMBDA x : x # 0)]
  ELSE [pa EXCEPT !.value = NoValue, !.length = 0, !.subscriptions = << >>]

\* how many times setValue raises definitionChanged: once, whatever the value
setValueRaises(pa, value) == 1

\* new PositionPropertyArray(value, referenceFrame)
PositionPropertyArray(value, referenceFrame) ==
  setValue([constructed |-> TRUE, value |-> NoValue, length |-> 0,
            referenceFrame |-> referenceFrame, subscriptions |-> << >>],
           value)

\* the value of a Property instance in a reference frame (the items are taken
\* to be constant properties: their value does not depend on the time)
ItemValue(item, referenceFrame) ==
  10 * item + (IF referenceFrame = "FIXED" THEN 0 ELSE 1)

RECURSIVE ItemValuesUpTo(_, _, _)
\* the loop of getValueInReferenceFrame over the first k items: an undefined
\* entry yields undefined (0)
ItemValuesUpTo(pa, referenceFrame, k) ==
  IF k = 0 THEN << >>
  ELSE Append(ItemValuesUpTo(pa, referenceFrame, k - 1),
              IF pa.value.items[k] # 0
              THEN ItemValue(pa.value.items[k], referenceFrame) ELSE 0)

\* PositionPropertyArray.prototype.getValueInReferenceFrame(time, referenceFrame):
\* time tells whether a time is given; debug, whether the checks between the
\* debug pragmas are built in
getValueInReferenceFrame(pa, time, referenceFrame, debug) ==
  IF debug /\ ~time THEN [ok |-> FALSE, result |-> NoValue]
  ELSE IF ~pa.value.defined THEN [ok |-> TRUE, result |-> NoValue]
  ELSE [ok |-> TRUE,
        result |-> [defined |-> TRUE,
                    items |-> ItemValuesUpTo(pa, referenceFrame, pa.length)]]

\* PositionPropertyArray.prototype.getValue(time)
getValue(pa, time, debug) == getValueInReferenceFrame(pa, time, "FIXED", debug)

\* how many times the array raises definitionChanged when the item raises its
\* own: _raiseDefinitionChanged runs once per subscription to the item
raiseDefinitionChanged(pa, item) ==
  Len(SelectSeq(pa.subscriptions, LAMBDA x : x = item))

SetValue ==
  /\ propertyArray.constructed
  /\ \E value \in ArrayValues :
       /\ propertyArray' = setValue(propertyArray, value)
       /\ propertyCall' = [NoPropertyCall EXCEPT
                             !.op = "setValue", !.value = value,
                             !.raised = setValueRaises(propertyArray, value),
                             !.removed = removeAll(propertyArray)]
  /\ UNCHANGED sceneGraphVars

\* a Property instance raises its definitionChanged event
ItemDefinitionChanged ==
  /\ propertyArray.constructed
  /\ \E item \in Items :
       propertyCall' = [NoPropertyCall EXCEPT
                          !.op = "itemChanged", !.item = item,
                          !.raised = raiseDefinitionChanged(propertyArray, item)]
  /\ UNCHANGED << propertyArray, sceneGraphVars >>

GetValue ==
  /\ propertyArray.constructed
  /\ \E time \in BOOLEAN, debug \in BOOLEAN :
       LET r == getValue(propertyArray, time, debug)
       IN propertyCall' = [NoPropertyCall EXCEPT
                             !.op = "getValue", !.time = time, !.ok = r.ok,
                             !.result = r.result]
  /\ UNCHANGED << propertyArray, sceneGraphVars >>

\* a PositionPropertyArray constructed on any array value in either frame; the
\* scene graph is not constructed
InitProperty ==
  /\ SceneGraphUnconstructed(NoComponents, NoModel)
  /\ \E value \in ArrayValues, referenceFrame \in ReferenceFrames :
       /\ propertyArray = PositionPropertyArray(value, referenceFrame)
       /\ propertyCall = [NoPropertyCall EXCEPT
                            !.op = "construct", !.value = value,
                            !.referenceFrame = referenceFrame, !.raised = 1]

NextProperty ==
  \/ SetValue
  \/ ItemDefinitionChanged
  \/ GetValue

SpecProperty == InitProperty /\ [][NextProperty]_vars

\* the items of an array value that are Property instances
DefinedItems(value) == {x \in Range(value.items) : x # 0}

\* C17: the array raises definitionChanged when setValue is called with data
\* different from the current value and when one of the properties in the array
\* raises its own definitionChanged, and raises nothing when setValue is called
\* with data equal to the current value.
C17_RaisedOnChangeOnly ==
  [][/\ (propertyCall'.op = "setValue" /\ propertyCall'.value # propertyArray.value)
          => propertyCall'.raised >= 1
     /\ (propertyCall'.op = "itemChanged"
           /\ propertyCall'.item \in DefinedItems(propertyArray.value))
          => propertyCall'.raised >= 1
     /\ (propertyCall'.op = "setValue" /\ propertyCall'.value = propertyArray.value)
          => propertyCall'.raised = 0]_vars

\* C18: getValue called without a time returns, with the array of the item
\* values, or undefined when no value is set.
C18_GetValueWithoutTime ==
  (propertyCall.op = "getValue" /\ ~propertyCall.time) =>
    /\ propertyCall.ok
    /\ propertyCall.result =
         IF propertyArray.value.defined
         THEN [defined |-> TRUE,
               items |-> [k \in 1 .. Len(propertyArray.value.items) |->
                            IF propertyArray.value.items[k] = 0 THEN 0
                            ELSE ItemValue(propertyArray.value.items[k], "FIXED")]]
         ELSE NoValue

\* ------------------------------------------------------------ order of a rebuild
\* the owning model with no model-level stage, with two, and with four
RebuildModels ==
  {Model0,
   [Model0 EXCEPT !.color = TRUE, !.imageBasedLighting = TRUE],
   [Model0 EXCEPT !.color = TRUE, !.imageBasedLighting = TRUE,
                  !.clippingEnabled = TRUE, !.splitDirection = "LEFT"]}

\* flat models of at most MaxNodes nodes, each with at most two primitives and
\* at most three primitives in all, every node in the scene; the model has
\* no, two or four model-level stages
InitRebuild ==
  \E n \in 0 .. MaxNodes, m \in RebuildModels :
    \E prims \in [0 .. (n - 1) -> PrimitiveLists] :
      /\ TotalLen(prims, n) <= 3
      /\ Unconstructed(
           Components(n, [i \in 0 .. (n - 1) |-> NoIndex], FALSE,
                      Ordered(0 .. (n - 1), FALSE), prims, Unskinned(n),
                      NodeMatricesOf(n), << >>, IDENTITY, "Y"),
           m)

NextRebuild ==
  \/ Construct
  \/ BuildDrawCommandsIn(TRUE)

SpecRebuild == InitRebuild /\ [][NextRebuild]_vars

\* the events of a call that are named by one of the names of the set
Named(call, names) == {k \in 1 .. Len(call.events) : call.events[k].e \in names}

\* C19: in the event log of every buildDrawCommands call, the clearing of the
\* statistics comes first; the model-level stages run in list order, once each,
\* and all of them before the first node-level stage; nodes are processed in
\* array order; the stages of a node precede the stages of its primitives; the
\* stages of a primitive precede the building of its draw command; the
\* bounding sphere is assigned last, after every primitive is processed.
C19_RebuildOrder ==
  last.op = "buildDrawCommands" =>
    LET E == last.events
        nodeLevel == Named(last, {"nodeStages", "primitiveStages", "drawCommand"})
        modelLevel == Named(last, {"modelStage"})
    IN /\ Named(last, {"clear"}) = {1}
       /\ \A a \in modelLevel : E[a] = Ev("modelStage", a - 1, 0)
       /\ nodeLevel # {} =>
            /\ Cardinality(modelLevel) = Len(modelPipelineStages)
            /\ \A a \in modelLevel, b \in nodeLevel : a < b
       /\ \A a, b \in Named(last, {"nodeStages"}) : a < b => E[a].n < E[b].n
       /\ \A b \in Named(last, {"primitiveStages"}) :
            /\ \E a \in Named(last, {"nodeStages"}) : a < b /\ E[a].n = E[b].n
            /\ \A a \in Named(last, {"nodeStages"}) : a > b => E[a].n > E[b].n
       /\ \A c \in Named(last, {"drawCommand"}) :
            /\ c > 1
            /\ E[c - 1] = Ev("primitiveStages", E[c].n, E[c].p)
       /\ \A s \in Named(last, {"boundingSphere"}) :
            /\ s = Len(E)
            /\ \A i \in DOMAIN runtimeNodes :
                 \A j \in 1 .. Len(runtimeNodes[i].runtimePrimitives) :
                   \E c \in Named(last, {"drawCommand"}) : E[c] = Ev("drawCommand", i, j)
       /\ last.ok => Named(last, {"boundingSphere"}) # {}

\* C19 witness: a rebuild has completed on a model with four model-level stages
\* and two nodes, one of them with two primitives.
C19_Witness ==
  /\ last.op = "buildDrawCommands"
  /\ last.ok
  /\ Len(modelPipelineStages) = 4
  /\ Cardinality(Named(last, {"nodeStages"})) = 2
  /\ Cardinality(Named(last, {"drawCommand"})) = 3

\* the primitives whose draw command the call has built, as << node, position >>
BuiltBy(call) ==
  {<< call.events[c].n, call.events[c].p >> : c \in Named(call, {"drawCommand"})}

Scales == {1, 2, 3}

\* a model of one root node with one primitive, placed at the origin or scaled
\* by two and moved; the model holds any pair of scales
InitRadius ==
  \E placement \in {IDENTITY, [a |-> 2, b |-> 1]}, computedScale \in Scales,
     clampedScale \in Scales, box \in {Box(0, 2), Box(0 - 2, 4)} :
    Unconstructed(
      Components(1, [i \in 0 .. 0 |-> NoIndex], FALSE, << 0 >>,
                 [i \in 0 .. 0 |-> << box >>], Unskinned(1), NodeMatricesOf(1),
                 << >>, IDENTITY, "Y"),
      [Model0 EXCEPT !.modelMatrix = placement, !.computedScale = computedScale,
                     !.clampedScale = clampedScale])

NextRadius ==
  \/ Construct
  \/ BuildDrawCommandsIn(FALSE)

SpecRadius == InitRadius /\ [][NextRadius]_vars

\* C21: after a completed buildDrawCommands the model's initial radius is the
\* radius of the scene graph's sphere transformed by the placement matrix, the
\* model's radius is the initial radius times the uniform scale with which the
\* model matrix is composed, and a rebuild that follows a completed rebuild
\* yields the same radius.
C21_RadiusScaledAsMatrix ==
  [][(last'.op = "buildDrawCommands" /\ last'.ok) =>
       /\ model'.initialRadius =
            transformSphere(boundingSphere', model'.modelMatrix).radius
       /\ model'.boundingSphere.radius = model'.initialRadius * model'.computedScale
       /\ computeModelMatrix(model'.modelMatrix).a =
            model'.modelMatrix.a * components.transform.a * axisCorrectionMatrix.a
              * model'.computedScale
       /\ (last.op = "buildDrawCommands" /\ last.ok) =>
            model'.boundingSphere.radius = model.boundingSphere.radius]_vars

\* ------------------------------------------------------------ order of construction
\* the source nodes that have source node i among their children
SourceParents(i) ==
  {q \in SourceIndices : i \in Range(components.nodes[q].children)}

\* C22: in the event log of a constructor call that reaches the traversal, the
\* runtime node of every child of a node is stored before the node's own; the
\* child-index list of every runtime node is the list of the source indices of
\* its source children, in child order; the transform-to-root of a declared
\* root is the identity and that of any other runtime node is its parent's
\* transform-to-root times its parent's local transform; the root-index list is
\* the list of the declared roots, in declaration order.
C22_PostOrderConstruction ==
  (last.op = "construct" /\ ~optionsMissing) =>
    LET E == last.events
        stored == EventPositions(last, "node")
    IN /\ \A k \in stored :
            \A c \in Range(components.nodes[E[k].n].children) :
              \E j \in stored : j < k /\ E[j].n = c
       /\ \A i \in DefinedNodes :
            /\ runtimeNodes[i].children = components.nodes[i].children
            /\ runtimeNodes[i].transform = components.nodes[i].matrix
            /\ IF i \in Range(components.scene)
               THEN runtimeNodes[i].transformToRoot = IDENTITY
               ELSE \E q \in SourceParents(i) :
                      /\ runtimeNodes[q].defined
                      /\ runtimeNodes[i].transformToRoot =
                           multiplyTransformation(runtimeNodes[q].transformToRoot,
                                                  runtimeNodes[q].transform)
       /\ rootNodes = components.scene
       /\ Cardinality(stored) = Cardinality(DefinedNodes)

\* C22 witness: the constructor has run on a model of three nodes with two
\* disconnected declared roots, declared in descending index order, one of them
\* with a child.
C22_Witness ==
  /\ last.op = "construct"
  /\ Len(rootNodes) = 2
  /\ rootNodes[1] > rootNodes[2]
  /\ \E i \in DefinedNodes :
       /\ i \in Range(rootNodes)
       /\ Len(runtimeNodes[i].children) = 1
       /\ runtimeNodes[runtimeNodes[i].children[1]].transformToRoot # IDENTITY

\* ------------------------------------------------------------ before the first rebuild
\* flat models of at most MaxFrameNodes nodes, each with at most two primitives
\* and at most three primitives in all; the last node may be left out of the scene
InitUnbuilt ==
  \E n \in 0 .. MaxFrameNodes :
    \E prims \in [0 .. (n - 1) -> PrimitiveLists], S \in {0 .. (n - 1), 0 .. (n - 2)} :
      /\ TotalLen(prims, n) <= 3
      /\ Unconstructed(
           Components(n, [i \in 0 .. (n - 1) |-> NoIndex], FALSE, Ordered(S, FALSE),
                      prims, Unskinned(n), NodeMatricesOf(n), << >>, IDENTITY, "Y"),
           Model0)

\* rebuilds may fail at any stage, the setters are called with a value that
\* differs from the one a new draw command holds
NextUnbuilt ==
  \/ Construct
  \/ BuildDrawCommandsIn(TRUE)
  \/ Setter("backFaceCulling", [NoArg EXCEPT !.flag = FALSE])
  \/ Setter("shadows", [NoArg EXCEPT !.value = "DISABLED"])
  \/ Setter("debugShowBoundingVolume", [NoArg EXCEPT !.flag = TRUE])
  \/ GetDrawCommands

SpecUnbuilt == InitUnbuilt /\ [][NextUnbuilt]_vars

\* no buildDrawCommands call has completed: _boundingSphere, undefined after the
\* constructor, is assigned at the end of every completed rebuild and nowhere else
NeverRebuilt == ~boundingSphere.defined

Occurrences(value, item) ==
  Cardinality({k \in 1 .. Len(value.items) : value.items[k] = item})

\* C24: a constructed array is subscribed to definitionChanged of exactly the
\* defined items of its current value, once per occurrence: when an item raises
\* its definitionChanged, the array raises its own once per occurrence of the
\* item in the current value, and so not at all for an item that is not in the
\* current value or when the value is undefined.
C24_SubscribedToCurrentItems ==
  propertyArray.constructed =>
    /\ \A item \in Items :
         raiseDefinitionChanged(propertyArray, item) =
           Occurrences(propertyArray.value, item)
    /\ Len(propertyArray.subscriptions) =
         Cardinality({k \in 1 .. Len(propertyArray.value.items) :
                        propertyArray.value.items[k] # 0})
    /\ propertyCall.op = "itemChanged" =>
         propertyCall.raised = Occurrences(propertyArray.value, propertyCall.item)
    /\ ~propertyArray.value.defined => propertyArray.subscriptions = << >>

\* C24 witness: setValue has replaced a value that held an item by a value that
\* holds another item twice and not the first: the subscription to the first
\* item is removed and its changes raise nothing.
C24_Witness ==
  /\ propertyCall.op = "setValue"
  /\ propertyArray.value.defined
  /\ \E old, new \in Items :
       /\ old \in Range(propertyCall.removed)
       /\ Occurrences(propertyArray.value, old) = 0
       /\ Occurrences(propertyArray.value, new) = 2
       /\ raiseDefinitionChanged(propertyArray, old) = 0
       /\ raiseDefinitionChanged(propertyArray, new) = 2

\* ------------------------------------------------------------ last joint refresh
\* the positions in the event log at which the joint matrices of skinned node s
\* are refreshed
RefreshesOf(call, s) ==
  {k \in 1 .. Len(call.events) :
     call.events[k].e = "jointRefresh" /\ call.events[k].n = s}

\* C25: in an update call that returns with the joint refresh enabled, the joint
\* matrices of every skinned node are refreshed once in the iteration of every
\* runtime node; the last of these refreshes comes after the update stages of
\* every runtime node; and when the call returns the joint matrices of every
\* skinned node are the ones computed from the runtime nodes as the call left
\* them.
C25_LastRefreshAfterNodeStages ==
  ( /\ last.op = "update"
    /\ last.ok
    /\ refreshesJoints(last.arg.mode, last.arg.flag)
    /\ DOMAIN runtimeNodes # {} ) =>
    \A s \in Range(skinnedNodes) :
      /\ \A i \in DOMAIN runtimeNodes :
           Cardinality({k \in RefreshesOf(last, s) : last.events[k].p = i}) = 1
      /\ Cardinality(RefreshesOf(last, s)) = Cardinality(DOMAIN runtimeNodes)
      /\ \E k \in RefreshesOf(last, s) :
           \A a \in Named(last, {"nodeUpdate", "recompute"}) : a < k
      /\ runtimeNodes[s].jointMatrices =
           JointMatrices(runtimeNodes, runtimeSkins[runtimeNodes[s].runtimeSkin + 1])

\* C25 witness: update has returned with the joint refresh enabled on a scene
\* graph of three nodes, the first of them skinned and the last one dirty: the
\* last node recomputed its transform and the joint matrices were refreshed
\* after that, in the third iteration.
C25_Witness ==
  /\ last.op = "update"
  /\ last.ok
  /\ refreshesJoints(last.arg.mode, last.arg.flag)
  /\ DOMAIN runtimeNodes = 0 .. 2
  /\ 0 \in Range(skinnedNodes)
  /\ \E a \in Named(last, {"recompute"}), k \in RefreshesOf(last, 0) :
       /\ last.events[a].n = 2
       /\ last.events[k].p = 2
       /\ a < k

====
